---- MODULE Spec2Model ----
(***************************************************************************)
(* Model of the video bot: the scheduled-broadcast loop of src/main.py     *)
(* (process_scheduled_broadcasts), the conversation state kept in          *)
(* user_states, the access gate check_user_access, and the tables of       *)
(* src/database.py they read and write.                                    *)
(*                                                                         *)
(* Strings the code inspects by character (channel targets) are sequences  *)
(* of one-character strings; other strings are opaque tokens.              *)
(***************************************************************************)
EXTENDS Integers, Sequences, FiniteSets, TLC

\* ------------------------------------------------------------------ bounds
MaxRows == 2        \* rows ever inserted into scheduled_broadcasts
MaxTime == 1        \* the clock saturates here; every scheduled_time is <= MaxTime
MaxFaults == 2      \* storage operations of the scheduler thread that raise
MaxEvents == 3
MaxLookups == 3
MaxList == 2      \* inbound events handled by the foreground

\* --------------------------------------------------------- configuration
OWNER == 1
ADMINS == {2}
Users == {1, 2, 3}
PollInterval == 60

IsAdmin(user_id) == user_id \in ADMINS \/ user_id = OWNER

VARIABLES
  CHANNEL_1, CHANNEL_2,   \* configured channels (environment, fixed at start)
  join_access_enabled,    \* global flag
  user_states,            \* dict: user id -> conversation state
  users,                  \* table users (ids)
  banned_users,           \* table banned_users: rows [user_id, banned_by]
  user_activity,          \* table user_activity: sequence of [user_id, action]
  videos,                 \* table videos: sequence of [id, file_id, name, description]
  scheduled_broadcasts,   \* table scheduled_broadcasts; the id is the index
  now,                    \* wall clock
  sched_pc,               \* position of the scheduler thread
  pending_broadcasts,     \* the scheduler's local list of fetched row ids
  cur,                    \* index of the row being processed in pending_broadcasts
  slept,                  \* argument of the scheduler's last time.sleep
  faults,                 \* storage operations of the scheduler that raised so far
  channel_sends,          \* transport: messages sent to channels by the foreground
  sent,                   \* transport: per row, number of sends made by the scheduler
  cycle,                  \* what happened in the current poll cycle
  nEvents,                \* inbound events handled so far
  lastEvent,              \* what the last foreground handler did
  ban_ops,                \* ids whose latest executed ban/unban operation is a ban
  poll_pc,                \* position of start_bot_with_retry
  retry_count,            \* its local retry_count
  wait_time               \* argument of its last time.sleep

dbVars == <<users, banned_users, user_activity, videos>>
fgVars == <<join_access_enabled, user_states, channel_sends, nEvents, lastEvent, ban_ops>>
schedVars == <<sched_pc, pending_broadcasts, cur, slept, faults, sent, cycle>>
pollVars == <<poll_pc, retry_count, wait_time>>
vars == <<CHANNEL_1, CHANNEL_2, join_access_enabled, user_states, users, banned_users,
          user_activity, videos, scheduled_broadcasts, now, sched_pc, pending_broadcasts,
          cur, slept, faults, channel_sends, sent, cycle, nEvents,
          lastEvent, ban_ops, poll_pc, retry_count, wait_time>>

\* ------------------------------------------------------------- strings
Digits == {"0", "1", "2", "3", "4", "5", "6", "7", "8", "9"}

DigitValue(c) ==
  CASE c = "0" -> 0 [] c = "1" -> 1 [] c = "2" -> 2 [] c = "3" -> 3 [] c = "4" -> 4
    [] c = "5" -> 5 [] c = "6" -> 6 [] c = "7" -> 7 [] c = "8" -> 8 [] c = "9" -> 9

startswith(s, c) == Len(s) >= 1 /\ s[1] = c

RECURSIVE DecimalValue(_)
DecimalValue(s) ==
  IF s = <<>> THEN 0 ELSE 10 * DecimalValue(SubSeq(s, 1, Len(s) - 1)) + DigitValue(s[Len(s)])

\* Python int() on a string that starts with '-': a value, or ValueError
IntParses(s) ==
  /\ Len(s) >= 2
  /\ \A k \in 2..Len(s) : s[k] \in Digits

IntOf(s) == 0 - DecimalValue(Tail(s))


\* re.sub in escape_markdown_v2: the class [_*[\]()~`>#+-=|{}.!], in which +-=
\* is the range from '+' to '=' and so holds , - . / the digits : ; < too
\* (the backquote is left out: no text of the model holds one)
SpecialChars ==
  {"_", "*", "[", "]", "(", ")", "~", ">", "#", "|", "{", "}", "!",
   "+", ",", "-", ".", "/", ":", ";", "<", "="} \cup Digits

RECURSIVE escape_markdown_v2(_)
escape_markdown_v2(text) ==
  IF text = <<>> THEN <<>>
  ELSE (IF Head(text) \in SpecialChars THEN <<"\\", Head(text)>> ELSE <<Head(text)>>)
         \o escape_markdown_v2(Tail(text))

\* what a MarkdownV2 message shows: a backslash makes the next character an
\* ordinary one and is not shown
RECURSIVE Rendered(_)
Rendered(text) ==
  IF text = <<>> THEN <<>>
  ELSE IF Head(text) = "\\" /\ Len(text) >= 2
    THEN <<text[2]>> \o Rendered(SubSeq(text, 3, Len(text)))
    ELSE <<Head(text)>> \o Rendered(Tail(text))

\* a variant that never splits
split_whole(text) == <<text>>

\* str.split(): the words between runs of blanks
RECURSIVE split(_)
split(text) ==
  IF text = <<>> THEN <<>>
  ELSE IF Head(text) = " " THEN split(Tail(text))
  ELSE LET n == IF \E k \in 1..Len(text) : text[k] = " "
                  THEN (CHOOSE k \in 1..Len(text) :
                          text[k] = " " /\ \A j \in 1..(k - 1) : text[j] # " ") - 1
                  ELSE Len(text)
       IN <<SubSeq(text, 1, n)>> \o split(SubSeq(text, n + 1, Len(text)))

None == <<>>   \* Python's None / '' where the code only tests truthiness

\* The three forms of a channel target (lines 148-154, 2009-2015, 2151-2157):
\* '@handle' as it is, '-digits' as the numeric chat id, anything else with
\* '@' put in front; int() raises ValueError on a '-' not followed by digits.
\* a variant that leaves a bare handle as it is
NormalizeBare(target_channel) ==
  IF startswith(target_channel, "@")
    THEN [kind |-> "handle", name |-> target_channel, num |-> 0]
  ELSE IF startswith(target_channel, "-")
    THEN IF IntParses(target_channel)
           THEN [kind |-> "chat_id", name |-> None, num |-> IntOf(target_channel)]
           ELSE [kind |-> "ValueError", name |-> None, num |-> 0]
  ELSE [kind |-> "handle", name |-> target_channel, num |-> 0]

Normalize(target_channel) ==
  IF startswith(target_channel, "@")
    THEN [kind |-> "handle", name |-> target_channel, num |-> 0]
  ELSE IF startswith(target_channel, "-")
    THEN IF IntParses(target_channel)
           THEN [kind |-> "chat_id", name |-> None, num |-> IntOf(target_channel)]
           ELSE [kind |-> "ValueError", name |-> None, num |-> 0]
  ELSE [kind |-> "handle", name |-> <<"@">> \o target_channel, num |-> 0]

\* ------------------------------------------------------------ database
\* a variant that writes nothing
log_user_activity_drop(log, user_id, action) == log

\* a variant that keeps the newest entry only
log_user_activity_rewrite(log, user_id, action) ==
  <<[user_id |-> user_id, action |-> action]>>

log_user_activity(log, user_id, action) ==
  Append(log, [user_id |-> user_id, action |-> action])

add_user(table, user_id) == table \cup {user_id}

\* DELETE FROM users WHERE user_id = ?
remove_user(table, user_id) == table \ {user_id}

\* DELETE FROM users
clear_all_users(table) == {}

is_user_banned(table, user_id) == \E row \in table : row.user_id = user_id

\* a variant whose INSERT replaces nothing
ban_user_insert(table, user_id, banned_by) ==
  table \cup {[user_id |-> user_id, banned_by |-> banned_by]}

\* INSERT OR REPLACE / ON CONFLICT (user_id) DO UPDATE: user_id is the
\* primary key, the row of the same user_id gives way to the new one
ban_user(table, user_id, banned_by) ==
  {row \in table : row.user_id # user_id}
    \cup {[user_id |-> user_id, banned_by |-> banned_by]}

\* a variant that deletes nothing
unban_user_keeps(table, user_id) == table

\* DELETE FROM banned_users WHERE user_id = ?
unban_user(table, user_id) == {row \in table : row.user_id # user_id}

\* bulk_ban_users, lines 703-725: the same statement for each id of the list,
\* each in its own try block. fault[i] names the call that raises for the
\* i-th id, if any. The result: the table, the log and the count returned.
RECURSIVE bulk_ban_users(_, _, _, _, _)
bulk_ban_users(table, log, user_ids, banned_by, fault) ==
  IF user_ids = <<>> THEN [table |-> table, log |-> log, banned_count |-> 0]
  ELSE LET user_id == Head(user_ids)
           f == Head(fault)
           t1 == IF f = "execute" THEN table
                 ELSE {row \in table : row.user_id # user_id}
                        \cup {[user_id |-> user_id, banned_by |-> banned_by]}
           l1 == IF f = "none" THEN log_user_activity(log, user_id, "bulk_banned")
                 ELSE log
           rest == bulk_ban_users(t1, l1, Tail(user_ids), banned_by, Tail(fault))
       IN [table |-> rest.table, log |-> rest.log,
           banned_count |-> rest.banned_count + (IF f = "none" THEN 1 ELSE 0)]

\* The table videos is kept in the order the ids were minted; the place of a
\* deleted row holds NoRow, since uuid4 mints no id a second time.
NoRow == [deleted |-> TRUE]

\* str(uuid.uuid4()) for the n-th id minted: hex digits and hyphens
DigitChar(n) == CHOOSE c \in Digits : DigitValue(c) = n % 10
uuid4(n) == <<"a", "-", DigitChar(n)>>

\* a variant that stores the row twice
add_video_twice(table, file_id, name, description) ==
  Append(Append(table, [id |-> uuid4(Len(table) + 1), file_id |-> file_id,
                        name |-> name, description |-> description]),
         [id |-> uuid4(Len(table) + 2), file_id |-> file_id, name |-> name,
          description |-> description])

add_video(table, file_id, name, description) ==
  Append(table, [id |-> uuid4(Len(table) + 1), file_id |-> file_id, name |-> name,
                 description |-> description])

\* SELECT ... WHERE id = ?: the row, or NoRow for Python's None
get_video_by_id(table, video_id) ==
  IF \E i \in DOMAIN table : table[i] # NoRow /\ table[i].id = video_id
    THEN table[CHOOSE i \in DOMAIN table : table[i] # NoRow /\ table[i].id = video_id]
    ELSE NoRow

\* DELETE FROM videos WHERE id = ?
delete_video(table, video_id) ==
  [i \in DOMAIN table |->
     IF table[i] # NoRow /\ table[i].id = video_id THEN NoRow ELSE table[i]]

add_scheduled_broadcast(rows, admin_id, target_channel, content_type, file_id, t) ==
  Append(rows, [admin_id |-> admin_id, target_channel |-> target_channel,
                content_type |-> content_type, media_file_id |-> file_id,
                scheduled_time |-> t, status |-> "pending"])

\* variants of the WHERE clause: without the status filter, without the time
\* filter, and with a strict comparison of the time
IsDuePendingAnyStatus(row, t) == row.scheduled_time <= t
IsDuePendingAnyTime(row, t) == row.status = "pending"
IsDuePendingStrict(row, t) == row.status = "pending" /\ row.scheduled_time < t

\* WHERE status = 'pending' AND scheduled_time <= now
IsDuePending(row, t) == row.status = "pending" /\ row.scheduled_time <= t

\* a variant without ORDER BY: the due rows in any order
get_pending_broadcasts_unordered(rows, t) ==
  LET due == {i \in DOMAIN rows : IsDuePending(rows[i], t)}
      n == Cardinality(due)
  IN {s \in [1..n -> due] : \A j, k \in 1..n : j # k => s[j] # s[k]}

\* ORDER BY scheduled_time ASC: the rows of equal time come in any order
get_pending_broadcasts(rows, t) ==
  LET due == {i \in DOMAIN rows : IsDuePending(rows[i], t)}
      n == Cardinality(due)
  IN {s \in [1..n -> due] :
        /\ \A j, k \in 1..n : j # k => s[j] # s[k]
        /\ \A j, k \in 1..n :
             j < k => rows[s[j]].scheduled_time <= rows[s[k]].scheduled_time}

update_broadcast_status(rows, broadcast_id, status) ==
  IF broadcast_id \in DOMAIN rows
    THEN [rows EXCEPT ![broadcast_id].status = status]
    ELSE rows

\* --------------------------------------------------------------- inputs
\* the rows inserted: a text to a handle, a text whose target int() rejects,
\* a photo row without a file id
RowShapes ==
  { [target_channel |-> <<"@", "c">>, content_type |-> "text",  media_file_id |-> None],
    [target_channel |-> <<"-", "c">>, content_type |-> "text",  media_file_id |-> None],
    [target_channel |-> <<"-", "7">>, content_type |-> "photo", media_file_id |-> None] }
\* a row is due from the start or when the clock has run out
RowTimes == {0, MaxTime}

NoCycle ==
  [sendOk |-> {}, sendExc |-> {}, statusExc |-> FALSE, logExc |-> FALSE,
   escaped |-> FALSE]

\* ------------------------------------------------------------ clock
\* Time passes; the clock saturates at MaxTime, by when every row is due.
Tick ==
  /\ now < MaxTime
  /\ now' = now + 1
  /\ UNCHANGED <<CHANNEL_1, CHANNEL_2, dbVars, fgVars, schedVars, scheduled_broadcasts, pollVars>>

\* Database.add_scheduled_broadcast: a new pending row (main.py has no caller;
\* rows are inserted by whoever administers the table).
AddScheduledBroadcast ==
  /\ Len(scheduled_broadcasts) < MaxRows
  /\ \E shape \in RowShapes, t \in RowTimes, admin_id \in ADMINS :
       scheduled_broadcasts' =
         add_scheduled_broadcast(scheduled_broadcasts, admin_id, shape.target_channel,
                                 shape.content_type, shape.media_file_id, t)
  /\ sent' = Append(sent, 0)
  /\ UNCHANGED <<CHANNEL_1, CHANNEL_2, dbVars, fgVars, now, sched_pc, pending_broadcasts,
                 cur, slept, faults, cycle, pollVars>>

\* ------------------------------------------- process_scheduled_broadcasts
schedFrame == <<CHANNEL_1, CHANNEL_2, users, banned_users, videos, fgVars, now, pollVars>>

broadcast_id == pending_broadcasts[cur]
broadcast == scheduled_broadcasts[broadcast_id]

\* a storage operation of the scheduler raises
StorageRaises ==
  /\ faults < MaxFaults
  /\ faults' = faults + 1

\* the for loop goes to the next row, or ends and line 189 sleeps
NextItem ==
  IF cur < Len(pending_broadcasts)
    THEN sched_pc' = "send" /\ cur' = cur + 1 /\ slept' = slept
    ELSE sched_pc' = "sleep" /\ cur' = cur /\ slept' = PollInterval

\* a variant in which the exception ends the thread
EscapeCycleEnds ==
  sched_pc' = "ended" /\ cur' = cur /\ slept' = slept

\* an exception leaves the for loop: lines 191-193
EscapeCycle ==
  sched_pc' = "sleep" /\ cur' = cur /\ slept' = PollInterval

\* a variant of the fetch that also empties user_states
SchedFetchDropsStates ==
  /\ sched_pc \in {"start", "sleep"}
  /\ \E got \in get_pending_broadcasts(scheduled_broadcasts, now) :
       /\ pending_broadcasts' = got
       /\ IF Len(got) > 0
            THEN sched_pc' = "send" /\ cur' = 1 /\ slept' = slept
            ELSE sched_pc' = "sleep" /\ cur' = 0 /\ slept' = PollInterval
  /\ cycle' = NoCycle
  /\ user_states' = <<>>
  /\ UNCHANGED <<CHANNEL_1, CHANNEL_2, dbVars, join_access_enabled, channel_sends,
                 nEvents, lastEvent, ban_ops, now, scheduled_broadcasts, faults, sent,
                 pollVars>>

\* line 139, at the start of the thread and each time time.sleep returns:
\* pending_broadcasts = db.get_pending_broadcasts()
SchedFetch ==
  /\ sched_pc \in {"start", "sleep"}
  /\ \E got \in get_pending_broadcasts(scheduled_broadcasts, now) :
       /\ pending_broadcasts' = got
       /\ IF Len(got) > 0
            THEN sched_pc' = "send" /\ cur' = 1 /\ slept' = slept
            ELSE sched_pc' = "sleep" /\ cur' = 0 /\ slept' = PollInterval
  /\ cycle' = NoCycle
  /\ UNCHANGED <<schedFrame, user_activity, scheduled_broadcasts, faults, sent>>

\* line 139 raises: caught by the outer handler, lines 191-193
SchedFetchRaises ==
  /\ sched_pc \in {"start", "sleep"}
  /\ StorageRaises
  /\ pending_broadcasts' = <<>>
  /\ cycle' = [NoCycle EXCEPT !.escaped = TRUE]
  /\ sched_pc' = "sleep" /\ cur' = 0 /\ slept' = PollInterval
  /\ UNCHANGED <<schedFrame, user_activity, scheduled_broadcasts, sent>>

\* lines 157-166: which transport call the row leads to
SendKind(row) ==
  IF row.content_type = "photo" /\ row.media_file_id # None THEN "photo"
  ELSE IF row.content_type = "text" THEN "text"
  ELSE "none"

\* lines 143-166: the target is normalized and the transport accepts the send
SchedSend ==
  /\ sched_pc = "send"
  /\ Normalize(broadcast.target_channel).kind # "ValueError"
  /\ SendKind(broadcast) # "none"
  /\ sent' = [sent EXCEPT ![broadcast_id] = @ + 1]
  /\ cycle' = [channel_id |-> Normalize(broadcast.target_channel)]
                 @@ [cycle EXCEPT !.sendOk = @ \cup {broadcast_id}]
  /\ sched_pc' = "mark_completed"
  /\ UNCHANGED <<schedFrame, user_activity, scheduled_broadcasts, pending_broadcasts, cur,
                 slept, faults>>

\* lines 158-166: bot.send_photo / bot.send_message raises
SchedSendRaises ==
  /\ sched_pc = "send"
  /\ Normalize(broadcast.target_channel).kind # "ValueError"
  /\ SendKind(broadcast) # "none"
  /\ cycle' = [cycle EXCEPT !.sendExc = @ \cup {broadcast_id}]
  /\ sched_pc' = "mark_failed"
  /\ UNCHANGED <<schedFrame, user_activity, scheduled_broadcasts, pending_broadcasts, cur,
                 slept, faults, sent>>

\* line 152: int(target_channel) raises ValueError; the per-item handler takes over
SchedNormalizeRaises ==
  /\ sched_pc = "send"
  /\ Normalize(broadcast.target_channel).kind = "ValueError"
  /\ sched_pc' = "mark_failed"
  /\ UNCHANGED <<schedFrame, user_activity, scheduled_broadcasts, pending_broadcasts, cur,
                 slept, faults, sent, cycle>>

\* lines 157-166: neither branch of the if/elif applies, nothing is sent
SchedNothingToSend ==
  /\ sched_pc = "send"
  /\ Normalize(broadcast.target_channel).kind # "ValueError"
  /\ SendKind(broadcast) = "none"
  /\ sched_pc' = "mark_completed"
  /\ UNCHANGED <<schedFrame, user_activity, scheduled_broadcasts, pending_broadcasts, cur,
                 slept, faults, sent, cycle>>

\* line 169
SchedMarkCompleted ==
  /\ sched_pc = "mark_completed"
  /\ scheduled_broadcasts' =
       update_broadcast_status(scheduled_broadcasts, broadcast_id, "completed")
  /\ sched_pc' = "log_sent"
  /\ UNCHANGED <<schedFrame, user_activity, pending_broadcasts, cur, slept, faults, sent,
                 cycle>>

SchedMarkCompletedRaises ==
  /\ sched_pc = "mark_completed"
  /\ StorageRaises
  /\ cycle' = [cycle EXCEPT !.statusExc = TRUE]
  /\ sched_pc' = "mark_failed"
  /\ UNCHANGED <<schedFrame, user_activity, scheduled_broadcasts, pending_broadcasts, cur,
                 slept, sent>>

\* lines 170-172
SchedLogSent ==
  /\ sched_pc = "log_sent"
  /\ user_activity' =
       log_user_activity(user_activity, broadcast.admin_id, "scheduled_broadcast_sent")
  /\ NextItem
  /\ UNCHANGED <<schedFrame, scheduled_broadcasts, pending_broadcasts, faults, sent, cycle>>

SchedLogSentRaises ==
  /\ sched_pc = "log_sent"
  /\ StorageRaises
  /\ cycle' = [cycle EXCEPT !.logExc = TRUE]
  /\ sched_pc' = "mark_failed"
  /\ UNCHANGED <<schedFrame, user_activity, scheduled_broadcasts, pending_broadcasts, cur,
                 slept, sent>>

\* line 179, inside the per-item handler
SchedMarkFailed ==
  /\ sched_pc = "mark_failed"
  /\ scheduled_broadcasts' =
       update_broadcast_status(scheduled_broadcasts, broadcast_id, "failed")
  /\ sched_pc' = "log_failed"
  /\ UNCHANGED <<schedFrame, user_activity, pending_broadcasts, cur, slept, faults, sent,
                 cycle>>

SchedMarkFailedRaises ==
  /\ sched_pc = "mark_failed"
  /\ StorageRaises
  /\ cycle' = [cycle EXCEPT !.statusExc = TRUE, !.escaped = TRUE]
  /\ EscapeCycle
  /\ UNCHANGED <<schedFrame, user_activity, scheduled_broadcasts, pending_broadcasts, sent>>

\* lines 181-183, inside the per-item handler
SchedLogFailed ==
  /\ sched_pc = "log_failed"
  /\ user_activity' =
       log_user_activity(user_activity, broadcast.admin_id, "scheduled_broadcast_failed")
  /\ NextItem
  /\ UNCHANGED <<schedFrame, scheduled_broadcasts, pending_broadcasts, faults, sent, cycle>>

SchedLogFailedRaises ==
  /\ sched_pc = "log_failed"
  /\ StorageRaises
  /\ cycle' = [cycle EXCEPT !.logExc = TRUE, !.escaped = TRUE]
  /\ EscapeCycle
  /\ UNCHANGED <<schedFrame, user_activity, scheduled_broadcasts, pending_broadcasts, sent>>

Scheduler ==
  \/ SchedFetch \/ SchedFetchRaises
  \/ SchedSend \/ SchedSendRaises \/ SchedNormalizeRaises \/ SchedNothingToSend
  \/ SchedMarkCompleted \/ SchedMarkCompletedRaises
  \/ SchedLogSent \/ SchedLogSentRaises
  \/ SchedMarkFailed \/ SchedMarkFailedRaises
  \/ SchedLogFailed \/ SchedLogFailedRaises

\* ------------------------------------------------------- foreground
\* Inbound events are handled one at a time, each handler from its first line
\* to its return or to the exception that ends it. Every event arrives in the
\* sender's private chat, whose id is the sender's id.

\* dict.get(key) with the value returned for a missing key; where the code gets
\* None the model gets "" for a string and NoUser for an id
NoUser == 0

Get(d, key, missing) == IF key \in DOMAIN d THEN d[key] ELSE missing

\* a variant that stores the state name alone
SetStateBare(states, key, value) ==
  [k \in DOMAIN states \cup {key} |->
     IF k = key THEN [state |-> value.state] ELSE states[k]]

\* user_states[key] = value
SetState(states, key, value) ==
  [k \in DOMAIN states \cup {key} |-> IF k = key THEN value ELSE states[k]]

\* a variant that empties the whole dict
DelStateAll(states, key) == <<>>

\* a variant that deletes nothing
DelStateNot(states, key) == states

\* del user_states[key], guarded by "if key in user_states"
DelState(states, key) == [k \in DOMAIN states \ {key} |-> states[k]]

\* a variant with one entry shared by every sender
StateKeyShared(user_id) == OWNER

\* the key under which a handler reads and writes user_states: user_id
StateKey(user_id) == user_id

\* a variant that never looks at banned_users
check_user_access_open(user_id, action, fault) ==
  [ users  |-> IF fault = "add_user" THEN users ELSE add_user(users, user_id),
    log    |-> IF fault \in {"add_user", "log"}
                 THEN user_activity
                 ELSE log_user_activity(user_activity, user_id, action),
    result |-> IF fault # "none" THEN "raise" ELSE "true" ]

\* lines 89-105. fault names the database call that raises, if any.
check_user_access(user_id, action, fault) ==
  [ users  |-> IF fault = "add_user" THEN users ELSE add_user(users, user_id),
    log    |-> IF fault \in {"add_user", "log"}
                 THEN user_activity
                 ELSE log_user_activity(user_activity, user_id, action),
    result |-> IF fault # "none" THEN "raise"
               ELSE IF is_user_banned(banned_users, user_id) THEN "false"
               ELSE "true" ]

AccessFaults == {"none", "add_user", "log", "is_banned"}

Event(handler, sender, access, outcome, content) ==
  [handler |-> handler, sender |-> sender, access |-> access,
   banned |-> is_user_banned(banned_users, sender), outcome |-> outcome,
   content |-> content]

fgFrame == <<CHANNEL_1, CHANNEL_2, scheduled_broadcasts, now, schedVars, pollVars>>

Counted == nEvents < MaxEvents /\ nEvents' = nEvents + 1

\* the commands that follow an upload dialogue are counted further
CountedLookup == nEvents < MaxEvents + MaxLookups /\ nEvents' = nEvents + 1

\* what an inbound text is: an opaque body and its length
Texts == {"hello", "Skip", "x4096", "x4097"}
\* a variant in which every content is short
TextLenShort(text) == 5

TextLen(text) ==
  CASE text = "x4096" -> 4096 [] text = "x4097" -> 4097 [] text = "c1024" -> 1024 [] text = "c1025" -> 1025
    [] OTHER -> 5
Captions == {"c1024", "c1025"}
\* a variant that changes no letter
LowerNot(text) == text

Lower(text) == IF text \in {"skip", "Skip", "SKIP"} THEN "skip" ELSE text

\* lines 2150-2210 (text) and 2008-2068 (photo): the try block around the
\* channel send and its two handlers. f says which calls raise. The result:
\* whether the channel got the message, the activity-log entries written, and
\* whether the state entry was deleted.
DeliveryFaults ==
  [send : {"ok", "api", "err"}, log1 : BOOLEAN, reply1 : BOOLEAN,
   reply2 : BOOLEAN, log2 : BOOLEAN]

Deliver(target_channel, label, f) ==
  LET channel_id == Normalize(target_channel)
      sends == channel_id.kind # "ValueError" /\ f.send = "ok"
      branch == IF channel_id.kind = "ValueError" THEN "err"
                ELSE IF f.send # "ok" THEN f.send
                ELSE IF ~f.log1 THEN "err"
                ELSE IF ~f.reply1 THEN "api"
                ELSE "done"
      logged1 == sends /\ f.log1
      handled == branch # "done" /\ f.reply2 /\ f.log2
  IN [ sent |-> sends,
       channel_id |-> channel_id,
       log |-> (IF logged1 THEN <<label>> ELSE <<>>) \o
               (IF handled
                  THEN IF branch = "api" THEN <<label \o "_failed">>
                       ELSE <<label \o "_error">>
                  ELSE <<>>),
       deleted |-> branch = "done" \/ handled ]

RECURSIVE LogAll(_, _, _)
LogAll(log, user_id, actions) ==
  IF actions = <<>> THEN log
  ELSE LogAll(log_user_activity(log, user_id, Head(actions)), user_id, Tail(actions))

\* lines 2123-2125: the entry is a channel broadcast waiting for its content
TextIsBroadcast(state_info) ==
  Get(state_info, "broadcast_type", "") = "channel"
    /\ Get(state_info, "state", "") = "awaiting_content"

\* lines 2127-2128
TextStateInvalid(state_info, user_id) ==
  Get(state_info, "initiator_id", NoUser) # user_id \/ ~IsAdmin(user_id)

\* a variant that takes no entry for one of the broadcast dialogue
PhotoIsBroadcastNever(state_info) == FALSE

\* lines 1976-1977
PhotoIsBroadcast(state_info) == Get(state_info, "broadcast_type", "") = "channel"

\* lines 1981-1983
PhotoStateInvalid(state_info, user_id) ==
  \/ Get(state_info, "state", "") # "awaiting_content"
  \/ Get(state_info, "initiator_id", NoUser) # user_id
  \/ ~IsAdmin(user_id)

\* one delivery to a channel by a foreground handler: what was sent where, by
\* whom, out of whose conversation
Delivery(o, kind, user_id, state_info) ==
  IF o.sent
    THEN {[to |-> o.channel_id, kind |-> kind, sender |-> user_id,
           initiator |-> Get(state_info, "initiator_id", NoUser)]}
    ELSE {}

fgRest == <<join_access_enabled, fgFrame>>

\* a variant without the admin check of lines 2089-2093
HandleVideoAnySender(user_id, file_id, fault) ==
  LET acc == check_user_access(user_id, "video_upload", fault)
      stores == acc.result = "true"
  IN /\ Counted
     /\ users' = acc.users
     /\ user_activity' = acc.log
     /\ user_states' =
          IF stores
            THEN SetState(user_states, StateKey(user_id),
                          [state |-> "awaiting_name", file_id |-> file_id])
            ELSE user_states
     /\ lastEvent' = Event("video", user_id, acc.result,
                           IF stores THEN "awaiting_name" ELSE "rejected", file_id)
     /\ UNCHANGED <<banned_users, ban_ops, videos, channel_sends, fgRest>>

\* handle_video
HandleVideo(user_id, file_id, fault) ==
  LET acc == check_user_access(user_id, "video_upload", fault)
      stores == acc.result = "true" /\ IsAdmin(user_id)
  IN /\ Counted
     /\ users' = acc.users
     /\ user_activity' = acc.log
     /\ user_states' =
          IF stores
            THEN SetState(user_states, StateKey(user_id),
                          [state |-> "awaiting_name", file_id |-> file_id])
            ELSE user_states
     /\ lastEvent' = Event("video", user_id, acc.result,
                           IF stores THEN "awaiting_name" ELSE "rejected", file_id)
     /\ UNCHANGED <<banned_users, ban_ops, videos, channel_sends, fgRest>>

\* the outcomes of the try block over every choice of the calls that raise
Deliveries(target_channel, label) ==
  {Deliver(target_channel, label, f) : f \in DeliveryFaults}

VideoFaults == {"none", "add_video", "get_me", "no_username", "reply"}

\* handle_text
HandleText(user_id, text, fault) ==
  LET acc == check_user_access(user_id, "text_input", fault)
      key == StateKey(user_id)
      state_info == user_states[key]
      state == Get(state_info, "state", "")
      branch ==
        CASE acc.result # "true" -> "denied"
          [] key \notin DOMAIN user_states -> "no_state"
          [] TextIsBroadcast(state_info) /\ TextStateInvalid(state_info, user_id)
               -> "invalid_state"
          [] TextIsBroadcast(state_info) /\ TextLen(text) > 4096 -> "too_long"
          [] TextIsBroadcast(state_info) -> "broadcast"
          [] state = "awaiting_name" -> "name"
          [] state = "awaiting_description" -> "description"
          [] OTHER -> "ignored"
      description == IF Lower(text) # "skip" THEN text ELSE ""
  IN /\ Counted
     /\ users' = acc.users
     /\ \/ /\ branch = "broadcast"
           /\ \E o \in Deliveries(state_info.target_channel, "text_broadcast") :
                /\ user_activity' = LogAll(acc.log, user_id, o.log)
                /\ user_states' =
                     IF o.deleted THEN DelState(user_states, key) ELSE user_states
                /\ channel_sends' =
                     channel_sends \cup Delivery(o, "text", user_id, state_info)
                /\ lastEvent' = Event("text", user_id, acc.result, branch, text)
                                   @@ [delivered |-> o.sent]
           /\ UNCHANGED videos
        \/ /\ branch = "description"
           /\ \E vf \in VideoFaults :
                /\ videos' =
                     IF vf # "add_video"
                       THEN add_video(videos, state_info.file_id, state_info.name,
                                      description)
                       ELSE videos
                /\ user_states' =
                     IF vf \in {"none", "no_username"}
                       THEN DelState(user_states, key) ELSE user_states
                /\ lastEvent' =
                     Event("text", user_id, acc.result,
                           IF vf \in {"none", "no_username"} THEN branch ELSE "raise",
                           text)
           /\ user_activity' = acc.log
           /\ UNCHANGED channel_sends
        \/ /\ branch \notin {"broadcast", "description"}
           /\ user_states' =
                CASE branch = "invalid_state" -> DelState(user_states, key)
                  [] branch = "name" ->
                       SetState(user_states, key,
                                [state |-> "awaiting_description",
                                 file_id |-> state_info.file_id, name |-> text])
                  [] OTHER -> user_states
           /\ user_activity' = acc.log
           /\ lastEvent' = Event("text", user_id, acc.result, branch, text)
           /\ UNCHANGED <<videos, channel_sends>>
     /\ UNCHANGED <<banned_users, ban_ops, fgRest>>

\* handle_photo
HandlePhoto(user_id, caption, fault) ==
  LET acc == check_user_access(user_id, "photo_upload", fault)
      key == StateKey(user_id)
      state_info == user_states[key]
      branch ==
        CASE acc.result # "true" -> "denied"
          [] key \notin DOMAIN user_states -> "no_state"
          [] ~PhotoIsBroadcast(state_info) -> "ignored"
          [] PhotoStateInvalid(state_info, user_id) -> "invalid_state"
          [] TextLen(caption) > 1024 -> "too_long"
          [] OTHER -> "broadcast"
  IN /\ Counted
     /\ users' = acc.users
     /\ \/ /\ branch = "broadcast"
           /\ \E o \in Deliveries(state_info.target_channel, "photo_broadcast") :
                /\ user_activity' = LogAll(acc.log, user_id, o.log)
                /\ user_states' =
                     IF o.deleted THEN DelState(user_states, key) ELSE user_states
                /\ channel_sends' =
                     channel_sends \cup Delivery(o, "photo", user_id, state_info)
                /\ lastEvent' = Event("photo", user_id, acc.result, branch, caption)
                                   @@ [delivered |-> o.sent]
        \/ /\ branch # "broadcast"
           /\ lastEvent' = Event("photo", user_id, acc.result, branch, caption)
           /\ user_states' =
                IF branch = "invalid_state"
                  THEN DelState(user_states, key) ELSE user_states
           /\ user_activity' = acc.log
           /\ UNCHANGED channel_sends
     /\ UNCHANGED <<banned_users, ban_ops, videos, fgRest>>

\* a variant of channel_broadcast_command that does not look at the channels
ChannelBroadcastCommandAnyConfig(user_id) ==
  /\ Counted
  /\ user_states' =
       IF IsAdmin(user_id)
         THEN SetState(user_states, StateKey(user_id),
                       [state |-> "awaiting_channel", broadcast_type |-> "channel"])
         ELSE user_states
  /\ lastEvent' = Event("channel_broadcast", user_id, "none",
                        IF IsAdmin(user_id) THEN "awaiting_channel" ELSE "rejected", "")
  /\ UNCHANGED <<dbVars, ban_ops, channel_sends, fgRest>>

\* channel_broadcast_command
ChannelBroadcastCommand(user_id) ==
  LET starts == IsAdmin(user_id) /\ (CHANNEL_1 # None \/ CHANNEL_2 # None)
  IN /\ Counted
     /\ user_states' =
          IF starts
            THEN SetState(user_states, StateKey(user_id),
                          [state |-> "awaiting_channel", broadcast_type |-> "channel"])
            ELSE user_states
     /\ lastEvent' = Event("channel_broadcast", user_id, "none",
                           IF starts THEN "awaiting_channel" ELSE "rejected", "")
     /\ UNCHANGED <<dbVars, ban_ops, channel_sends, fgRest>>

BroadcastButtons ==
  {"broadcast_cancel", "broadcast_channel_1", "broadcast_channel_2", "broadcast_channel_3"}

\* handle_channel_broadcast_callback. fault names the call that raises, if any.
\* The event records whether the handler ran to its end.
HandleChannelBroadcastCallback(user_id, data, fault) ==
  LET key == StateKey(user_id)
      target_channel ==
        IF data = "broadcast_channel_1" /\ CHANNEL_1 # None THEN CHANNEL_1
        ELSE IF data = "broadcast_channel_2" /\ CHANNEL_2 # None THEN CHANNEL_2
        ELSE None
      channel_name == IF data = "broadcast_channel_1" THEN "Channel 1" ELSE "Channel 2"
      branch ==
        CASE ~IsAdmin(user_id) -> "rejected"
          [] fault = "answer" -> "raise"
          [] data = "broadcast_cancel" -> "cancel"
          [] target_channel = None -> "invalid_channel"
          [] OTHER -> "awaiting_content"
  IN /\ Counted
     /\ user_states' =
          CASE branch = "cancel" -> DelState(user_states, key)
            [] branch = "awaiting_content" ->
                 SetState(user_states, key,
                          [state |-> "awaiting_content", broadcast_type |-> "channel",
                           target_channel |-> target_channel,
                           channel_name |-> channel_name,
                           initiator_id |-> user_id, chat_id |-> user_id])
            [] OTHER -> user_states
     /\ user_activity' =
          CASE branch = "cancel" /\ fault = "none" ->
                 log_user_activity(user_activity, user_id, "broadcast_cancelled")
            [] branch = "awaiting_content" /\ fault # "log" ->
                 log_user_activity(user_activity, user_id, "broadcast_started")
            [] OTHER -> user_activity
     /\ lastEvent' = Event("broadcast_button", user_id, "none", branch, data)
                        @@ [ended |->
                              CASE branch = "rejected" -> fault # "answer"
                                [] branch = "raise" -> FALSE
                                [] branch = "invalid_channel" -> fault # "edit"
                                [] OTHER -> fault = "none"]
     /\ UNCHANGED <<users, banned_users, videos, ban_ops, channel_sends, fgRest>>

\* handle_callback for the button "bulk_delete_videos"
HandleCallback(user_id, data, fault) ==
  LET acc == check_user_access(user_id, "callback:" \o data, fault)
  IN /\ Counted
     /\ users' = acc.users
     /\ user_activity' = acc.log
     /\ lastEvent' = Event("button", user_id, acc.result,
                           IF acc.result # "true" THEN "denied"
                           ELSE IF IsAdmin(user_id) THEN "confirm" ELSE "rejected",
                           data)
     /\ UNCHANGED <<banned_users, videos, ban_ops, user_states, channel_sends, fgRest>>

\* a variant of ban_user_command that refuses no target
BanUserCommandAnyTarget(user_id, user_id_to_ban, fault) ==
  LET bans == IsAdmin(user_id) /\ fault # "execute"
  IN /\ Counted
     /\ banned_users' =
          IF bans THEN ban_user(banned_users, user_id_to_ban, user_id) ELSE banned_users
     /\ ban_ops' = IF bans THEN ban_ops \cup {user_id_to_ban} ELSE ban_ops
     /\ user_activity' =
          IF bans /\ fault = "none"
            THEN log_user_activity(user_activity, user_id_to_ban, "banned")
            ELSE user_activity
     /\ lastEvent' = Event("ban_user", user_id, "none",
                           IF bans THEN "banned" ELSE "rejected", user_id_to_ban)
     /\ UNCHANGED <<users, videos, user_states, channel_sends, fgRest>>

\* ban_user_command. fault: "execute" (the INSERT raises) or "log" (the
\* activity-log write inside Database.ban_user raises)
BanUserCommand(user_id, user_id_to_ban, fault) ==
  LET bans == IsAdmin(user_id) /\ user_id_to_ban # OWNER
                /\ user_id_to_ban \notin ADMINS /\ fault # "execute"
  IN /\ Counted
     /\ banned_users' =
          IF bans THEN ban_user(banned_users, user_id_to_ban, user_id) ELSE banned_users
     /\ ban_ops' = IF bans THEN ban_ops \cup {user_id_to_ban} ELSE ban_ops
     /\ user_activity' =
          IF bans /\ fault = "none"
            THEN log_user_activity(user_activity, user_id_to_ban, "banned")
            ELSE user_activity
     /\ lastEvent' = Event("ban_user", user_id, "none",
                           IF bans THEN "banned" ELSE "rejected", user_id_to_ban)
     /\ UNCHANGED <<users, videos, user_states, channel_sends, fgRest>>

\* unban_user_command
UnbanUserCommand(user_id, user_id_to_unban, fault) ==
  LET unbans == IsAdmin(user_id) /\ fault # "execute"
  IN /\ Counted
     /\ banned_users' =
          IF unbans THEN unban_user(banned_users, user_id_to_unban) ELSE banned_users
     /\ ban_ops' = IF unbans THEN ban_ops \ {user_id_to_unban} ELSE ban_ops
     /\ user_activity' =
          IF unbans /\ fault = "none"
            THEN log_user_activity(user_activity, user_id_to_unban, "unbanned")
            ELSE user_activity
     /\ lastEvent' = Event("unban_user", user_id, "none",
                           IF unbans THEN "unbanned" ELSE "rejected", user_id_to_unban)
     /\ UNCHANGED <<users, videos, user_states, channel_sends, fgRest>>

\* bot.get_me().username
BotUsername == <<"b", "_">>

\* line 2239: f"https://t.me/{bot_username}?start={video_id}"
ShareableUrl(bot_username, video_id) ==
  <<"h", "t", "t", "p", "s", ":", "/", "/", "t", ".", "m", "e", "/">>
    \o bot_username \o <<"?", "s", "t", "a", "r", "t", "=">> \o video_id

\* the message a client sends when the link is opened: /start and the value
\* of the start parameter
DeepLinkMessage(url) ==
  LET q == CHOOSE k \in 1..Len(url) : url[k] = "?" /\ \A j \in 1..(k - 1) : url[j] # "?"
      query == SubSeq(url, q + 1, Len(url))
      eq == CHOOSE k \in 1..Len(query) :
              query[k] = "=" /\ \A j \in 1..(k - 1) : query[j] # "="
  IN <<"/", "s", "t", "a", "r", "t", " ">> \o SubSeq(query, eq + 1, Len(query))

\* lines 2239-2245 and the client: the reply shows the escaped link, the
\* reader opens what is shown
LinkMessage(video_id) ==
  DeepLinkMessage(Rendered(escape_markdown_v2(ShareableUrl(BotUsername, video_id))))

\* start_command, lines 252-295. member: the answer of check_channel_membership.
StartCommand(user_id, text, fault, member) ==
  LET acc == check_user_access(user_id, "start", fault)
      args == split(text)
      video == IF Len(args) > 1 THEN get_video_by_id(videos, args[2]) ELSE NoRow
      outcome ==
        CASE acc.result = "raise" -> "raise"
          [] acc.result = "false" -> "denied"
          [] Len(args) > 1 /\ join_access_enabled /\ ~member -> "join_prompt"
          [] Len(args) > 1 /\ video # NoRow -> "video"
          [] Len(args) > 1 -> "not_found"
          [] OTHER -> "welcome"
  IN /\ CountedLookup
     /\ users' = acc.users
     /\ user_activity' = acc.log
     /\ lastEvent' = Event("start", user_id, acc.result, outcome,
                           [text |-> text,
                            video |-> IF outcome = "video" THEN video ELSE NoRow,
                            member |-> member,
                            viewed |-> outcome = "video"])
     /\ UNCHANGED <<banned_users, videos, ban_ops, user_states, channel_sends, fgRest>>

\* delete_command, lines 457-480
DeleteCommand(user_id, text) ==
  LET args == split(text)
      deletes == IsAdmin(user_id) /\ Len(args) >= 2
      found == deletes /\ get_video_by_id(videos, args[2]) # NoRow
  IN /\ CountedLookup
     /\ videos' = IF deletes THEN delete_video(videos, args[2]) ELSE videos
     /\ lastEvent' = Event("delete", user_id, "none",
                           CASE ~IsAdmin(user_id) -> "rejected"
                             [] ~deletes -> "usage"
                             [] found -> "deleted"
                             [] OTHER -> "not_found",
                           [text |-> text])
     /\ UNCHANGED <<users, banned_users, user_activity, ban_ops, user_states,
                    channel_sends, fgRest>>

StartTexts ==
  {<<"/", "s", "t", "a", "r", "t">>} \cup {LinkMessage(uuid4(n)) : n \in 1..MaxRows}

LinkDeleteText == <<"/", "d", "e", "l", "e", "t", "e", " ">> \o uuid4(1)

DeleteTexts ==
  {<<"/", "d", "e", "l", "e", "t", "e">>}
    \cup {<<"/", "d", "e", "l", "e", "t", "e", " ">> \o uuid4(n) : n \in 1..MaxRows}

\* Python int() on a word: an optional sign and digits, or ValueError
UserIdParses(s) ==
  LET digits == IF startswith(s, "+") \/ startswith(s, "-") THEN Tail(s) ELSE s
  IN Len(digits) >= 1 /\ \A k \in DOMAIN digits : digits[k] \in Digits

UserIdOf(s) ==
  IF startswith(s, "-") THEN 0 - DecimalValue(Tail(s))
  ELSE IF startswith(s, "+") THEN DecimalValue(Tail(s))
  ELSE DecimalValue(s)

\* ban_user_command from the text of the message: lines 1040-1049 and
\* 1074-1078 around the command proper
BanUserMessage(user_id, text, fault) ==
  LET args == split(text)
      numeric == Len(args) >= 2 /\ UserIdParses(args[2])
  IN \/ /\ numeric
        /\ BanUserCommand(user_id, UserIdOf(args[2]), fault)
     \/ /\ ~numeric
        /\ Counted
        /\ lastEvent' = Event("ban_user", user_id, "none", "rejected", NoUser)
        /\ UNCHANGED <<dbVars, user_states, ban_ops, channel_sends, fgRest>>

BanWords == {<<>>, <<"x">>, <<"1">>, <<"+", "1">>, <<"0", "2">>, <<"2">>, <<"3">>, <<"-", "3">>}

BanTexts == {<<"/", "b", "a", "n", "_", "u", "s", "e", "r", " ">> \o w : w \in BanWords}

Files == {"v1", "v2"}
CommandFaults == {"none", "execute", "log"}
ButtonFaults == {"none", "answer", "edit", "log"}

Video == \E u \in Users, file_id \in Files, a \in AccessFaults : HandleVideo(u, file_id, a)

Text == \E u \in Users, text \in Texts, a \in AccessFaults : HandleText(u, text, a)

Photo ==
  \E u \in Users, caption \in Captions, a \in AccessFaults : HandlePhoto(u, caption, a)

ChannelBroadcast == \E u \in Users : ChannelBroadcastCommand(u)

BroadcastButton ==
  \E u \in Users, data \in BroadcastButtons, fault \in ButtonFaults :
     HandleChannelBroadcastCallback(u, data, fault)

Button == \E u \in Users, a \in AccessFaults : HandleCallback(u, "bulk_delete_videos", a)

BanUser == \E u \in Users, t \in Users, fault \in CommandFaults : BanUserCommand(u, t, fault)

UnbanUser ==
  \E u \in Users, t \in Users, fault \in CommandFaults : UnbanUserCommand(u, t, fault)

Foreground ==
  \/ Video \/ Text \/ Photo \/ ChannelBroadcast \/ BroadcastButton \/ Button
  \/ BanUser \/ UnbanUser

\* ping_command, lines 298-310. The content of the event is the call of
\* check_user_access that raised, if any.
PingCommand(user_id, fault) ==
  LET acc == check_user_access(user_id, "ping", fault)
  IN /\ Counted
     /\ users' = acc.users
     /\ user_activity' = acc.log
     /\ lastEvent' = Event("ping", user_id, acc.result,
                           CASE acc.result = "true" -> "pong"
                             [] acc.result = "false" -> "denied"
                             [] OTHER -> "raise",
                           fault)
     /\ UNCHANGED <<banned_users, videos, ban_ops, user_states, channel_sends, fgRest>>

Ping == \E u \in Users, a \in AccessFaults : PingCommand(u, a)

NextPing == Ping \/ BanUser

\* ------------------------------------------------ the ban operations
\* Database.ban_user(user_id, banned_by) called directly
DbBanUser(user_id, banned_by, fault) ==
  /\ Counted
  /\ banned_users' =
       IF fault = "execute" THEN banned_users
       ELSE ban_user(banned_users, user_id, banned_by)
  /\ ban_ops' = IF fault = "execute" THEN ban_ops ELSE ban_ops \cup {user_id}
  /\ user_activity' =
       IF fault = "none" THEN log_user_activity(user_activity, user_id, "banned")
       ELSE user_activity
  /\ lastEvent' = [handler |-> "db.ban_user", user_ids |-> <<user_id>>,
                   banned_by |-> banned_by, fault |-> <<fault>>]
  /\ UNCHANGED <<users, videos, user_states, channel_sends, fgRest>>

\* Database.unban_user(user_id) called directly
DbUnbanUser(user_id, fault) ==
  /\ Counted
  /\ banned_users' =
       IF fault = "execute" THEN banned_users ELSE unban_user(banned_users, user_id)
  /\ ban_ops' = IF fault = "execute" THEN ban_ops ELSE ban_ops \ {user_id}
  /\ user_activity' =
       IF fault = "none" THEN log_user_activity(user_activity, user_id, "unbanned")
       ELSE user_activity
  /\ lastEvent' = [handler |-> "db.unban_user", user_ids |-> <<user_id>>,
                   banned_by |-> NoUser, fault |-> <<fault>>]
  /\ UNCHANGED <<users, videos, user_states, channel_sends, fgRest>>

\* Database.bulk_ban_users(user_ids, banned_by) called directly
DbBulkBanUsers(user_ids, banned_by, fault) ==
  LET r == bulk_ban_users(banned_users, user_activity, user_ids, banned_by, fault)
  IN /\ Counted
     /\ banned_users' = r.table
     /\ ban_ops' = ban_ops \cup {user_ids[i] : i \in {j \in DOMAIN user_ids :
                                                       fault[j] # "execute"}}
     /\ user_activity' = r.log
     /\ lastEvent' = [handler |-> "db.bulk_ban_users", user_ids |-> user_ids,
                      banned_by |-> banned_by, fault |-> fault]
     /\ UNCHANGED <<users, videos, user_states, channel_sends, fgRest>>

\* the id lists of a bulk ban: up to MaxList ids, repeats allowed
IdLists == UNION {[1..n -> Users] : n \in 0..MaxList}

\* at most the first statement of a bulk ban raises
BulkFaults(user_ids) ==
  {[i \in DOMAIN user_ids |-> IF i = 1 THEN f ELSE "none"] : f \in CommandFaults}

Bans == {OWNER} \cup ADMINS

DbBan == \E u \in Users, by \in Bans, fault \in CommandFaults : DbBanUser(u, by, fault)

DbUnban == \E u \in Users, fault \in CommandFaults : DbUnbanUser(u, fault)

DbBulkBan ==
  \E user_ids \in IdLists, by \in Bans :
    \E fault \in BulkFaults(user_ids) : DbBulkBanUsers(user_ids, by, fault)

NextBans == DbBan \/ DbUnban \/ DbBulkBan

BanMessage ==
  \E u \in Users, text \in BanTexts, fault \in CommandFaults : BanUserMessage(u, text, fault)

NextBanCommands == BanMessage \/ UnbanUser

\* the answers of bot.get_chat_member(channel, user_id).status, or the call raises
ChatMemberStatuses == {"member", "left", "raise"}

\* check_channel_membership, lines 196-224: status1 and status2 are what
\* get_chat_member answers for CHANNEL_1 and CHANNEL_2, if asked
check_channel_membership(status1, status2) ==
  IF CHANNEL_1 # None /\ status1 # "member" THEN FALSE
  ELSE IF CHANNEL_2 # None /\ status2 # "member" THEN FALSE
  ELSE TRUE

Start ==
  \E u \in Users, text \in StartTexts, a \in AccessFaults :
    \E status1, status2 \in ChatMemberStatuses :
      StartCommand(u, text, a, check_channel_membership(status1, status2))

Delete == \E u \in Users, text \in DeleteTexts : DeleteCommand(u, text)

\* an admin's upload dialogue and the commands that use its id
UploadVideo == HandleVideo(2, "v1", "none")

UploadText == \E text \in {"hello", "Skip"} : HandleText(2, text, "none")

UploadBan == BanUserCommand(2, 3, "none")

UploadStart ==
  \E text \in StartTexts, a \in {"none", "log"} : StartCommand(3, text, a, TRUE)

UploadDelete == \E u \in {2, 3} : DeleteCommand(u, LinkDeleteText)

NextUpload == UploadVideo \/ UploadText \/ UploadBan \/ UploadStart \/ UploadDelete

\* ------------------------------------------------------------- start
Configs ==
  { [CHANNEL_1 |-> None, CHANNEL_2 |-> None],
    [CHANNEL_1 |-> <<"@", "a">>, CHANNEL_2 |-> None],
    [CHANNEL_1 |-> <<"b">>, CHANNEL_2 |-> <<"-", "5">>] }

Init ==
  /\ \E c \in Configs : CHANNEL_1 = c.CHANNEL_1 /\ CHANNEL_2 = c.CHANNEL_2
  /\ join_access_enabled = FALSE
  /\ user_states = <<>>
  /\ users = {}
  /\ banned_users = {}
  /\ user_activity = <<>>
  /\ videos = <<>>
  /\ scheduled_broadcasts = <<>>
  /\ now = 0
  /\ sched_pc = "start"
  /\ pending_broadcasts = <<>>
  /\ cur = 0
  /\ slept = 0
  /\ faults = 0
  /\ channel_sends = {}
  /\ sent = <<>>
  /\ cycle = NoCycle
  /\ nEvents = 0
  /\ lastEvent = [handler |-> "none"]
  /\ ban_ops = {}
  /\ poll_pc = "polling"
  /\ retry_count = 0
  /\ wait_time = 0

\* the scheduler never reads the channel configuration
InitSched == Init /\ CHANNEL_1 = None /\ CHANNEL_2 = None

NextSched == Tick \/ AddScheduledBroadcast \/ Scheduler

SpecSched == InitSched /\ [][NextSched]_vars

\* the dispatcher alone: inbound events, one handler at a time
SpecFg == Init /\ [][Foreground]_vars

\* the scheduler thread next to the dispatcher, every interleaving of the two
InitShared == Init /\ CHANNEL_1 = <<"@", "a">> /\ CHANNEL_2 = None

SharedCommand == \E u \in {2, 3} : ChannelBroadcastCommand(u)

SharedVideo == HandleVideo(2, "v1", "none")

NextShared == NextSched \/ SharedCommand \/ SharedVideo

SpecShared == InitShared /\ [][NextShared]_vars

\* the three operations of Database on banned_users, called with any arguments
SpecBans == InitSched /\ [][NextBans]_vars

\* /ping from any sender, among /ban_user commands
SpecPing == InitSched /\ [][NextPing]_vars

\* the /ban_user and /unban_user commands from any sender
SpecBanCommands == InitSched /\ [][NextBanCommands]_vars

\* one upload dialogue, then the deep link and the delete command
SpecUpload == InitSched /\ [][NextUpload]_vars

\* The scheduler thread is a daemon thread that always has a next step and is
\* never starved. At most MaxFaults of its storage operations raise, so storage
\* is reachable from some point on.
FairSched == SpecSched /\ WF_vars(Scheduler)

\* ------------------------------------------ claims about the scheduler
Terminal == {"completed", "failed"}
RowIds == DOMAIN scheduled_broadcasts
StatusOf(i) == scheduled_broadcasts[i].status
Fetched == {pending_broadcasts[k] : k \in 1..Len(pending_broadcasts)}
\* the rows the current cycle has started on
Attempted == {pending_broadcasts[k] : k \in 1..cur}

\* C1: the scheduler hands no row to the transport a second time, also when
\* storage or activity-log writes raise.
C1_DeliveredAtMostOnce ==
  \A i \in DOMAIN sent : sent[i] <= 1

\* C2: a row whose status is completed or failed keeps a terminal status, is
\* in no later result of get_pending_broadcasts, and is never started on again.
C2_WrittenRowNeverFetchedAgain ==
  [][ /\ \A i \in RowIds : StatusOf(i) \in Terminal => scheduled_broadcasts'[i].status \in Terminal
      /\ pending_broadcasts' # pending_broadcasts =>
           \A k \in 1..Len(pending_broadcasts') : StatusOf(pending_broadcasts'[k]) \notin Terminal
      /\ (sched_pc' = "send" /\ (sched_pc # "send" \/ cur' # cur)) =>
           StatusOf(pending_broadcasts'[cur']) \notin Terminal
    ]_vars

\* a later poll has fetched a row while another due row is left out because
\* its status was written
C2_Witness ==
  /\ sched_pc = "send"
  /\ cur = 1
  /\ \E i \in RowIds \ Fetched :
        StatusOf(i) = "failed" /\ scheduled_broadcasts[i].scheduled_time <= now

\* C3: a status changes only from pending to completed or failed; completed
\* and failed are final.
C3_StatusOnlyLeavesPending ==
  [][ \A i \in RowIds :
        scheduled_broadcasts'[i].status # StatusOf(i) =>
          /\ StatusOf(i) = "pending"
          /\ scheduled_broadcasts'[i].status \in Terminal
    ]_vars

\* C4: a cycle in which a send raised still attempts every fetched row and
\* leaves each with a terminal status (read for the cycles in which storage
\* accepted every status write).
C4_CycleGoesOnAfterSendException ==
  (sched_pc = "sleep" /\ cycle.sendExc # {} /\ ~cycle.statusExc) =>
     \A y \in Fetched : y \in Attempted /\ StatusOf(y) \in Terminal

\* C5: at the end of a cycle a text row whose send succeeded is completed and
\* a text row whose send raised is failed (read for the cycles in which
\* storage accepted every status write).
C5_StatusMatchesSendOutcome ==
  (sched_pc = "sleep" /\ ~cycle.statusExc) =>
     \A i \in Fetched :
        scheduled_broadcasts[i].content_type = "text" =>
          /\ i \in cycle.sendOk => StatusOf(i) = "completed"
          /\ i \in cycle.sendExc => StatusOf(i) = "failed"

\* C6: every row the scheduler has fetched and every row it is about to send
\* is due, and the row it is about to send is pending; a row that was never
\* due or pending-at-fetch is never sent.
C6_OnlyDuePendingRowsAreSent ==
  /\ \A i \in Fetched : scheduled_broadcasts[i].scheduled_time <= now
  /\ sched_pc = "send" => broadcast.status = "pending" /\ broadcast.scheduled_time <= now
  /\ \A i \in RowIds : scheduled_broadcasts[i].scheduled_time > now => sent[i] = 0

\* a row was sent while another row is not yet due, and one is already terminal
C6_Witness ==
  /\ \E i \in RowIds : sent[i] > 0
  /\ \E i \in RowIds : scheduled_broadcasts[i].scheduled_time > now /\ sent[i] = 0
  /\ \E i \in RowIds : StatusOf(i) \in Terminal

\* C7: with the scheduler thread running and storage reachable from some
\* point on, every row that is pending and due gets a terminal status.
C7_DueRowEventuallyTerminal ==
  \A i \in 1..MaxRows :
     (i \in RowIds /\ StatusOf(i) = "pending" /\ scheduled_broadcasts[i].scheduled_time <= now)
       ~> (i \in RowIds /\ StatusOf(i) \in Terminal)

\* a row was fetched again after a cycle that storage faults cut short, and
\* now has its terminal status
C7_Witness ==
  /\ faults = MaxFaults
  /\ \E i \in RowIds : StatusOf(i) \in Terminal /\ i \in Attempted /\ sent[i] >= 2


\* ------------------------------------------ claims about the access gate
GatedHandlers == {"video", "text", "photo", "button"}
Handled == nEvents' = nEvents + 1

\* C8: when the sender of an inbound event has a row in banned_users,
\* check_user_access does not let the event through (it returns false, or a
\* database call in it raises and the handler ends there), and the handling
\* of the event leaves user_states exactly as it was.
C8_BannedSenderChangesNoState ==
  [][ (Handled /\ lastEvent'.banned) =>
        /\ lastEvent'.handler \in GatedHandlers => lastEvent'.access \in {"false", "raise"}
        /\ user_states' = user_states ]_vars

C8_Witness ==
  /\ lastEvent.handler \in GatedHandlers
  /\ lastEvent.banned
  /\ lastEvent.access = "false"
  /\ lastEvent.sender \in users
  /\ DOMAIN user_states # {}

\* C9: whenever check_user_access returns, it returns false exactly if the
\* sender has a row in banned_users at that moment, and that is exactly if the
\* latest executed ban_user/unban_user operation on the sender is a ban_user.
C9_FalseIffBanned ==
  (lastEvent.handler \in GatedHandlers /\ lastEvent.access \in {"true", "false"}) =>
     /\ (lastEvent.access = "false") <=> lastEvent.banned
     /\ lastEvent.banned <=> (lastEvent.sender \in ban_ops)

C9_Witness ==
  /\ lastEvent.handler \in GatedHandlers
  /\ lastEvent.access = "true"
  /\ \E i, j \in DOMAIN user_activity :
       /\ i < j
       /\ user_activity[i] = [user_id |-> lastEvent.sender, action |-> "banned"]
       /\ user_activity[j] = [user_id |-> lastEvent.sender, action |-> "unbanned"]

\* ------------------------------------------ claims about conversations
initiator_id(state_info) == Get(state_info, "initiator_id", NoUser)

\* C10: an event sent by B leaves every user_states entry whose initiator_id
\* is another identity A exactly as it was, and every message a handler sent
\* to a channel was sent for the identity that is the initiator_id of the
\* entry it was sent from.
C10_OnlyInitiatorAdvances ==
  [][ Handled =>
        /\ \A k \in DOMAIN user_states :
             initiator_id(user_states[k]) \notin {NoUser, lastEvent'.sender} =>
               k \in DOMAIN user_states' /\ user_states'[k] = user_states[k]
        /\ \A d \in channel_sends' : d.sender = d.initiator ]_vars

C10_Witness ==
  /\ lastEvent.handler \in {"text", "photo"}
  /\ lastEvent.outcome = "broadcast"
  /\ \E d \in channel_sends : d.sender = lastEvent.sender
  /\ \E k \in DOMAIN user_states :
       /\ initiator_id(user_states[k]) \notin {NoUser, lastEvent.sender}
       /\ user_states[k].state = "awaiting_content"

\* C11: an event sent by B leaves the user_states entry of every other
\* identity exactly as it was, and gives no other identity an entry.
C11_OtherEntriesUntouched ==
  [][ Handled =>
        /\ \A k \in DOMAIN user_states :
             k # lastEvent'.sender =>
               k \in DOMAIN user_states' /\ user_states'[k] = user_states[k]
        /\ \A k \in DOMAIN user_states' \ DOMAIN user_states : k = lastEvent'.sender
    ]_vars

\* B has just sent a name text and A is still awaiting_name
C11_Witness ==
  /\ lastEvent.handler = "text"
  /\ lastEvent.outcome = "name"
  /\ \E k \in DOMAIN user_states :
       k # lastEvent.sender /\ user_states[k].state = "awaiting_name"

C13_BroadcastEndsIdle ==
  [][ (Handled /\ lastEvent'.handler \in {"text", "photo"}
         /\ lastEvent'.outcome = "broadcast") =>
        lastEvent'.sender \notin DOMAIN user_states' ]_vars

\* C14: when the sender's entry is awaiting_content for the sender and the
\* gate lets the event through, a text of 4097 characters or a caption of
\* 1025 characters sends nothing and leaves user_states as it was, and a
\* text of 4096 characters or a caption of 1024 characters goes on to the
\* channel send.
C14_OversizedContentRejected ==
  [][ Handled =>
        LET e == lastEvent'
            k == e.sender
            armed == /\ e.handler \in {"text", "photo"}
                     /\ e.access = "true"
                     /\ k \in DOMAIN user_states
                     /\ Get(user_states[k], "state", "") = "awaiting_content"
                     /\ initiator_id(user_states[k]) = k
        IN /\ (armed /\ e.content \in {"x4097", "c1025"}) =>
                /\ e.outcome = "too_long"
                /\ user_states' = user_states
                /\ channel_sends' = channel_sends
           /\ (armed /\ e.content \in {"x4096", "c1024"}) => e.outcome = "broadcast"
    ]_vars

\* an oversized text has just been rejected and the entry is still bound to
\* its channel
C14_Witness ==
  /\ lastEvent.handler = "text"
  /\ lastEvent.content = "x4097"
  /\ lastEvent.outcome = "too_long"
  /\ channel_sends = {}
  /\ lastEvent.sender \in DOMAIN user_states
  /\ user_states[lastEvent.sender].state = "awaiting_content"
  /\ user_states[lastEvent.sender].target_channel = CHANNEL_1

\* ------------------------------------------ claims about the audit trail
ActionLabel(e) ==
  CASE e.handler = "video" -> "video_upload"
    [] e.handler = "text" -> "text_input"
    [] e.handler = "photo" -> "photo_upload"
    [] e.handler = "button" -> "callback:" \o e.content

\* C15: whenever check_user_access returns, true or false, the sender is in
\* users and the first row the event added to user_activity is the sender's
\* row tagged with the action label of the handler; when it returns false
\* that row is the only one added.
C15_AccessCallIsLogged ==
  [][ (Handled /\ lastEvent'.handler \in GatedHandlers
         /\ lastEvent'.access \in {"true", "false"}) =>
        LET e == lastEvent'
            n == Len(user_activity)
        IN /\ e.sender \in users'
           /\ Len(user_activity') > n
           /\ SubSeq(user_activity', 1, n) = user_activity
           /\ user_activity'[n + 1] = [user_id |-> e.sender, action |-> ActionLabel(e)]
           /\ e.access = "false" => Len(user_activity') = n + 1
    ]_vars

\* a banned sender was denied and the denied text is the last row of the log
C15_Witness ==
  /\ lastEvent.handler = "text"
  /\ lastEvent.access = "false"
  /\ lastEvent.sender \in users
  /\ Len(user_activity) >= 2
  /\ user_activity[Len(user_activity)] =
       [user_id |-> lastEvent.sender, action |-> "text_input"]

C17_OneBanRecordPerIdentity ==
  [][ Handled =>
        LET e == lastEvent'
            ran(i) == e.fault[i] # "execute"
        IN /\ \A r1, r2 \in banned_users' : r1.user_id = r2.user_id => r1 = r2
           /\ e.handler \in {"db.ban_user", "db.bulk_ban_users"} =>
                \A i \in DOMAIN e.user_ids :
                  ran(i) =>
                    {row \in banned_users' : row.user_id = e.user_ids[i]}
                      = {[user_id |-> e.user_ids[i], banned_by |-> e.banned_by]}
           /\ (e.handler = "db.unban_user" /\ ran(1)) =>
                ~is_user_banned(banned_users', e.user_ids[1])
    ]_vars

\* a user who had been banned before has just been banned again, in a bulk
\* ban that names the user twice
C17_Witness ==
  /\ lastEvent.handler = "db.bulk_ban_users"
  /\ lastEvent.user_ids = <<3, 3>>
  /\ lastEvent.banned_by = 1
  /\ \E n \in DOMAIN user_activity : user_activity[n] = [user_id |-> 3, action |-> "banned"]
  /\ banned_users = {[user_id |-> 3, banned_by |-> 1]}

\* C18: after every step no row of banned_users names the owner or an admin,
\* and a /ban_user whose sender is neither the owner nor an admin leaves
\* banned_users as it was.
C18_OwnerAndAdminsBanImmune ==
  [][ /\ \A row \in banned_users' : row.user_id \notin ADMINS \cup {OWNER}
      /\ (Handled /\ lastEvent'.handler = "ban_user"
            /\ lastEvent'.sender \notin ADMINS \cup {OWNER}) =>
           banned_users' = banned_users
    ]_vars

\* an admin's /ban_user +1, which names the owner, has just been refused
\* after user 3 was banned
C18_Witness ==
  /\ lastEvent.handler = "ban_user"
  /\ lastEvent.sender = 2
  /\ lastEvent.content = OWNER
  /\ lastEvent.outcome = "rejected"
  /\ banned_users = {[user_id |-> 3, banned_by |-> 1]}

\* ------------------------------------------ claims about the scheduler loop
\* C19: when an exception has left the body of a poll cycle (the fetch raised,
\* or a storage call inside the per-row handler raised) the thread is at the
\* sleep of the same 60 units as after a cycle that ended normally, and with
\* the thread running the next fetch follows: it succeeds and starts a new
\* cycle, or raises again.
C19_LoopSurvivesEscapedException ==
  /\ [](cycle.escaped => (sched_pc = "sleep" /\ slept = PollInterval))
  /\ \A n \in 0..(MaxFaults + 1) :
       (cycle.escaped /\ faults = n) ~> (~cycle.escaped \/ faults > n)

\* a storage call in the per-row handler raised with rows of the cycle left,
\* after an earlier storage call had raised
C19_Witness ==
  /\ cycle.escaped
  /\ cycle.statusExc
  /\ faults = 2
  /\ cur < Len(pending_broadcasts)
  /\ sched_pc = "sleep"
  /\ slept = PollInterval

\* ------------------------------------------ claims about failures of the log
\* C20: a /ping of a sender without a row in banned_users, during which the
\* activity-log write of check_user_access raises, still has check_user_access
\* return true and is answered with the pong.
C20_LogWriteFailureSwallowed ==
  [][ (Handled /\ lastEvent'.handler = "ping" /\ lastEvent'.content = "log"
         /\ ~lastEvent'.banned) =>
        (lastEvent'.access = "true" /\ lastEvent'.outcome = "pong")
    ]_vars

\* ------------------------------------------ claims about the dialogue states
\* C21: an inbound event whose handling changes user_states (an entry is
\* created, advanced or deleted) is one for which check_user_access was called
\* and returned true.
C21_TransitionOnlyAfterAccessCheck ==
  [][ (Handled /\ user_states' # user_states) => lastEvent'.access = "true" ]_vars

C23_BroadcastCommandNeedsAdminAndChannel ==
  [][ (Handled /\ lastEvent'.handler = "channel_broadcast") =>
        LET k == lastEvent'.sender
        IN IF k \in ADMINS \cup {OWNER} /\ (CHANNEL_1 # <<>> \/ CHANNEL_2 # <<>>)
             THEN /\ DOMAIN user_states' = DOMAIN user_states \cup {k}
                  /\ user_states'[k].state = "awaiting_channel"
                  /\ \A j \in DOMAIN user_states \ {k} : user_states'[j] = user_states[j]
             ELSE /\ lastEvent'.outcome = "rejected"
                  /\ user_states' = user_states
    ]_vars

\* with no channel configured the /channel_broadcast of an admin who is in an
\* upload dialogue has just been rejected
C23_Witness ==
  /\ lastEvent.handler = "channel_broadcast"
  /\ lastEvent.outcome = "rejected"
  /\ lastEvent.sender \in ADMINS
  /\ CHANNEL_1 = <<>> /\ CHANNEL_2 = <<>>
  /\ lastEvent.sender \in DOMAIN user_states
  /\ user_states[lastEvent.sender].state = "awaiting_name"

\* C24: the entry of a user becomes awaiting_content only in the handling of a
\* broadcast_channel button of that user whose entry was awaiting_channel, and
\* such a button arriving while the user has no entry or an upload entry leaves
\* user_states as it was.
C24_ContentStateOnlyFromChannelState ==
  [][ Handled =>
        LET e == lastEvent'
            k == e.sender
        IN /\ \A u \in DOMAIN user_states' :
                (user_states'[u].state = "awaiting_content"
                   /\ (u \notin DOMAIN user_states \/ user_states[u] # user_states'[u])) =>
                  /\ e.handler = "broadcast_button" /\ u = k
                  /\ k \in DOMAIN user_states
                  /\ user_states[k].state = "awaiting_channel"
           /\ (e.handler = "broadcast_button" /\ e.content # "broadcast_cancel"
                 /\ (k \notin DOMAIN user_states
                        \/ user_states[k].state \in {"awaiting_name", "awaiting_description"})) =>
                user_states' = user_states
    ]_vars

C26_NoTransitionNoChange ==
  [][ (Handled /\ lastEvent'.handler \in {"text", "photo"}) =>
        LET e == lastEvent'
            k == e.sender
            state == IF k \in DOMAIN user_states THEN user_states[k].state ELSE "idle"
        IN (\/ e.handler = "photo"
                 /\ state \in {"idle", "awaiting_name", "awaiting_description",
                                "awaiting_channel"}
            \/ e.handler = "text" /\ state \in {"idle", "awaiting_channel"}) =>
             user_states' = user_states
    ]_vars

\* C27: a video event of an admin creates the awaiting_name entry only when
\* that admin has no entry; an entry of the broadcast dialogue is not replaced
\* by a video event, and an entry of the upload dialogue is not deleted by the
\* broadcast_cancel button.
C27_DialoguesDoNotClobber ==
  [][ Handled =>
        LET e == lastEvent'
            k == e.sender
        IN /\ (e.handler = "video" /\ k \in DOMAIN user_states
                 /\ user_states[k].state \in {"awaiting_channel", "awaiting_content"}) =>
                user_states' = user_states
           /\ (e.handler = "broadcast_button" /\ e.content = "broadcast_cancel"
                 /\ k \in DOMAIN user_states
                 /\ user_states[k].state \in {"awaiting_name", "awaiting_description"}) =>
                user_states' = user_states
    ]_vars

\* C28: the number of rows ever added to videos grows only in the handling of
\* a text event whose sender was let through and whose entry is
\* awaiting_description, and then by exactly one; and every such text event
\* whose handler gets past db.add_video adds one.
C28_VideoOnlyFromDescriptionText ==
  [][ Handled =>
        LET e == lastEvent'
            k == e.sender
            finalizing == /\ e.handler = "text" /\ e.access = "true"
                          /\ k \in DOMAIN user_states
                          /\ user_states[k].state = "awaiting_description"
        IN /\ Len(videos') # Len(videos) =>
                finalizing /\ Len(videos') = Len(videos) + 1
           /\ (finalizing /\ e.outcome = "description") => Len(videos') = Len(videos) + 1
    ]_vars

\* one upload dialogue has been finished by the description text 'hello'
\* after three events, and there is one video
C28_Witness ==
  /\ lastEvent.handler = "text"
  /\ lastEvent.outcome = "description"
  /\ lastEvent.content = "hello"
  /\ nEvents = 3
  /\ Len(videos) = 1
  /\ videos[1].name \in {"hello", "Skip"}

\* C29: when a text or photo of a sender has been delivered to the channel out
\* of the sender's awaiting_content entry, the very next event, if it is again
\* a text or photo of that sender, is not delivered to the channel: one entry
\* leads to at most one delivery, also for two contents sent back to back.
C29_OneEntryOneDelivery ==
  [][ (/\ Handled
       /\ lastEvent.handler \in {"text", "photo"} /\ lastEvent.outcome = "broadcast"
       /\ lastEvent.delivered
       /\ lastEvent'.handler \in {"text", "photo"}
       /\ lastEvent'.sender = lastEvent.sender
       /\ lastEvent'.outcome = "broadcast") =>
        ~lastEvent'.delivered
    ]_vars

\* ------------------------------------------ claims about the two threads
\* C30: in every interleaving of the scheduler thread and the dispatcher, a
\* step of the scheduler leaves user_states as it was, and the handling of an
\* inbound event leaves the table scheduled_broadcasts, and so every status
\* in it, as it was.
C30_ThreadsShareOnlyPersistence ==
  [][ /\ Scheduler => user_states' = user_states
      /\ Handled => scheduled_broadcasts' = scheduled_broadcasts
    ]_vars

\* the scheduler has given a row its terminal status while an admin's
\* dialogue entry, created by the last event, is in user_states
C30_Witness ==
  /\ \E i \in RowIds : StatusOf(i) \in Terminal
  /\ sched_pc = "sleep"
  /\ nEvents = 2
  /\ lastEvent.handler = "channel_broadcast"
  /\ 2 \in DOMAIN user_states
  /\ user_states[2].state = "awaiting_channel"

\* ------------------------------------------ claims about channel targets
\* Values of the CHANNEL_1 variable of the environment, and of a stored target
Targets ==
  { <<"@", "a">>, <<"@">>, <<"a">>, <<"a", "@">>, <<"5">>, <<"-", "5">>,
    <<"-", "1", "0">>, <<"-", "a">>, <<"-">> }

InitNormalize ==
  /\ CHANNEL_1 \in Targets /\ CHANNEL_2 = None
  /\ join_access_enabled = FALSE
  /\ user_states = <<>>
  /\ users = {}
  /\ banned_users = {}
  /\ user_activity = <<>>
  /\ videos = <<>>
  /\ scheduled_broadcasts = <<>>
  /\ now = 0
  /\ sched_pc = "start"
  /\ pending_broadcasts = <<>>
  /\ cur = 0
  /\ slept = 0
  /\ faults = 0
  /\ channel_sends = {}
  /\ sent = <<>>
  /\ cycle = NoCycle
  /\ nEvents = 0
  /\ lastEvent = [handler |-> "none"]
  /\ ban_ops = {}
  /\ poll_pc = "polling"
  /\ retry_count = 0
  /\ wait_time = 0

\* one due row whose target is the configured channel
AddBroadcastToChannel ==
  /\ scheduled_broadcasts = <<>>
  /\ \E content_type \in {"text", "photo"} :
       scheduled_broadcasts' =
         add_scheduled_broadcast(scheduled_broadcasts, OWNER, CHANNEL_1, content_type,
                                 None, 0)
  /\ sent' = Append(sent, 0)
  /\ UNCHANGED <<CHANNEL_1, CHANNEL_2, dbVars, fgVars, now, sched_pc, pending_broadcasts,
                 cur, slept, faults, cycle, pollVars>>

NormalizeCommand == ChannelBroadcastCommand(OWNER)

NormalizeButton == HandleChannelBroadcastCallback(OWNER, "broadcast_channel_1", "none")

NormalizeText == HandleText(OWNER, "hello", "none")

NormalizePhoto == HandlePhoto(OWNER, "c1024", "none")

NextNormalize ==
  \/ AddBroadcastToChannel \/ Scheduler
  \/ NormalizeCommand \/ NormalizeButton \/ NormalizeText \/ NormalizePhoto

\* the three places that normalize a target, each given the same stored target
SpecNormalize == InitNormalize /\ [][NextNormalize]_vars

\* C31: a target that starts with '@' is the address as it is, a target that
\* starts with '-' is addressed by its numeric chat id, any other handle by '@'
\* followed by the handle; the scheduler, the text handler and the photo
\* handler send to that same address for the same stored target.
C31_SameDeliveryAddress ==
  LET t == CHANNEL_1
      address ==
        CASE t[1] = "@" -> [kind |-> "handle", name |-> t, num |-> 0]
          [] t[1] = "-" ->
               [kind |-> "chat_id", name |-> None, num |-> 0 - DecimalValue(Tail(t))]
          [] OTHER -> [kind |-> "handle", name |-> <<"@">> \o t, num |-> 0]
  IN /\ \A d \in channel_sends : d.to = address
     /\ "channel_id" \in DOMAIN cycle => cycle.channel_id = address

C31_Witness ==
  /\ CHANNEL_1 = <<"-", "1", "0">>
  /\ \E d \in channel_sends : d.kind = "photo" /\ d.to.num = 0 - 10
  /\ "channel_id" \in DOMAIN cycle
  /\ cycle.channel_id.num = 0 - 10

\* ------------------------------------------ claims about the join gate
\* a variant that toggles for any sender
JoinAccessCommandAnySender(user_id, fault) ==
  /\ CountedLookup
  /\ join_access_enabled' = ~join_access_enabled
  /\ lastEvent' = Event("join_access", user_id, "none",
                        IF fault = "reply" THEN "raise" ELSE "toggled", "")
  /\ UNCHANGED <<dbVars, ban_ops, user_states, channel_sends, fgFrame>>

\* join_access_command, lines 313-331. fault: the reply raises.
JoinAccessCommand(user_id, fault) ==
  /\ CountedLookup
  /\ join_access_enabled' =
       IF user_id # OWNER THEN join_access_enabled ELSE ~join_access_enabled
  /\ lastEvent' = Event("join_access", user_id, "none",
                        CASE fault = "reply" -> "raise"
                          [] user_id # OWNER -> "rejected"
                          [] OTHER -> "toggled",
                        "")
  /\ UNCHANGED <<dbVars, ban_ops, user_states, channel_sends, fgFrame>>

JoinAccess == \E u \in Users, fault \in {"none", "reply"} : JoinAccessCommand(u, fault)

\* CHANNEL_2 is not set here, so get_chat_member is asked about CHANNEL_1 only
JoinStart ==
  \E u \in {2, 3}, text \in StartTexts, status1 \in ChatMemberStatuses :
    StartCommand(u, text, "none", check_channel_membership(status1, "member"))

NextJoinAccess == JoinAccess \/ UploadVideo \/ UploadText \/ JoinStart

\* /join_access from any sender, among uploads and /start
SpecJoinAccess == InitShared /\ [][NextJoinAccess]_vars

\* C32: the join_access flag changes only in a /join_access command sent by
\* the owner; every such command negates it, so two in a row restore it; a
\* /join_access from anyone else leaves it as it is.
C32_OnlyOwnerTogglesJoinAccess ==
  [][ /\ join_access_enabled' # join_access_enabled =>
           /\ Handled
           /\ lastEvent'.handler = "join_access"
           /\ lastEvent'.sender = OWNER
      /\ Handled /\ lastEvent'.handler = "join_access" =>
           join_access_enabled' =
             IF lastEvent'.sender = OWNER THEN ~join_access_enabled
             ELSE join_access_enabled
      /\ Handled /\ lastEvent'.handler = "join_access" /\ lastEvent'.sender = OWNER
           /\ lastEvent.handler = "join_access" /\ lastEvent.sender = OWNER =>
             \* the second of two in a row: back to what it was before the first
             join_access_enabled' = ~join_access_enabled ]_vars

C32_Witness ==
  /\ lastEvent.handler = "join_access"
  /\ lastEvent.sender = OWNER
  /\ ~join_access_enabled

\* ------------------------------------------ claims about the entries
\* C33: every key of user_states is an admin or the owner, whatever events
\* came in.
C33_OnlyAdminsHaveEntries ==
  \A key \in DOMAIN user_states : key \in ADMINS \/ key = OWNER

C33_Witness ==
  /\ DOMAIN user_states = {OWNER} \cup ADMINS
  /\ lastEvent.sender \notin ADMINS \cup {OWNER}
  /\ lastEvent.handler \in {"video", "channel_broadcast", "broadcast_button"}

\* C34: an entry in awaiting_content has the identity it is stored under as
\* initiator_id and a configured, non-empty channel as target; an entry in
\* awaiting_description carries the file reference and the name captured
\* earlier: the name is the text that made it, the file reference the one the
\* entry had while it waited for the name.
C34_EntriesAreWellFormed ==
  /\ [](\A key \in DOMAIN user_states :
          LET s == user_states[key]
          IN /\ Get(s, "state", "") = "awaiting_content" =>
                  /\ Get(s, "initiator_id", NoUser) = key
                  /\ Get(s, "target_channel", None) # None
                  /\ Get(s, "target_channel", None) \in {CHANNEL_1, CHANNEL_2}
             /\ Get(s, "state", "") = "awaiting_description" =>
                  /\ Get(s, "file_id", "") \in Files
                  /\ Get(s, "name", "") \in Texts)
  /\ [][ \A key \in DOMAIN user_states' :
           LET s == user_states'[key]
           IN Get(s, "state", "") = "awaiting_description" =>
                \/ key \in DOMAIN user_states /\ user_states[key] = s
                \/ /\ key \in DOMAIN user_states
                   /\ Get(user_states[key], "state", "") = "awaiting_name"
                   /\ Get(s, "file_id", "") = Get(user_states[key], "file_id", "")
                   /\ lastEvent'.handler = "text"
                   /\ lastEvent'.sender = key
                   /\ Get(s, "name", "") = lastEvent'.content ]_vars

C34_Witness ==
  /\ OWNER \in DOMAIN user_states
  /\ user_states[OWNER].state = "awaiting_content"
  /\ user_states[OWNER].target_channel = CHANNEL_2
  /\ 2 \in DOMAIN user_states
  /\ user_states[2].state = "awaiting_description"

\* ------------------------------------------ more claims about the scheduler
\* C35: a row has status completed only if a send for it was made and
\* returned without error, whatever its content type and media reference.
C35_CompletedOnlyAfterSend ==
  \A i \in RowIds : StatusOf(i) = "completed" => sent[i] > 0

\* C36: within one poll cycle the due rows are attempted in ascending order of
\* scheduled_time: no row is attempted after a row of the same fetch that has
\* a later scheduled_time.
C36_AttemptsInTimeOrder ==
  \A j, k \in 1..cur :
     j < k =>
       scheduled_broadcasts[pending_broadcasts[j]].scheduled_time
         <= scheduled_broadcasts[pending_broadcasts[k]].scheduled_time

C36_Witness ==
  /\ Len(pending_broadcasts) = 2
  /\ cur = 2
  /\ pending_broadcasts[1] = 2
  /\ scheduled_broadcasts[2].scheduled_time < scheduled_broadcasts[1].scheduled_time

\* ------------------------------------------ claims about the activity log
\* Database.remove_user(user_id) called directly; with fault "execute" the
\* DELETE raises (a store that enforces the foreign keys of user_activity and
\* banned_users refuses it) and the table stays as it is
DbRemoveUser(user_id, fault) ==
  /\ Counted
  /\ users' = IF fault = "execute" THEN users ELSE remove_user(users, user_id)
  /\ lastEvent' = [handler |-> "db.remove_user", user_ids |-> <<user_id>>,
                   banned_by |-> NoUser, fault |-> <<fault>>]
  /\ UNCHANGED <<banned_users, user_activity, videos, ban_ops, user_states,
                 channel_sends, fgRest>>

\* Database.clear_all_users() called directly
DbClearAllUsers(fault) ==
  /\ Counted
  /\ users' = IF fault = "execute" THEN users ELSE clear_all_users(users)
  /\ lastEvent' = [handler |-> "db.clear_all_users", user_ids |-> <<>>,
                   banned_by |-> NoUser, fault |-> <<fault>>]
  /\ UNCHANGED <<banned_users, user_activity, videos, ban_ops, user_states,
                 channel_sends, fgRest>>

ActivityRemove == \E u \in Users, fault \in {"none", "execute"} : DbRemoveUser(u, fault)

ActivityClear == \E fault \in {"none", "execute"} : DbClearAllUsers(fault)

ActivityBan == \E fault \in CommandFaults : DbBanUser(3, OWNER, fault)

ActivityUnban == \E fault \in CommandFaults : DbUnbanUser(3, fault)

ActivityPing == \E a \in AccessFaults : PingCommand(3, a)

\* one due row for the scheduler
ActivityRow ==
  /\ scheduled_broadcasts = <<>>
  /\ \E shape \in RowShapes :
       scheduled_broadcasts' =
         add_scheduled_broadcast(scheduled_broadcasts, OWNER, shape.target_channel,
                                 shape.content_type, shape.media_file_id, 0)
  /\ sent' = Append(sent, 0)
  /\ UNCHANGED <<CHANNEL_1, CHANNEL_2, dbVars, fgVars, now, sched_pc, pending_broadcasts,
                 cur, slept, faults, cycle, pollVars>>

NextActivity ==
  \/ ActivityRemove \/ ActivityClear \/ ActivityBan \/ ActivityUnban \/ ActivityPing
  \/ UploadVideo \/ UploadText \/ UploadDelete
  \/ ActivityRow \/ Scheduler

\* every writer of the log and every DELETE of the store, in any order
SpecActivity == InitSched /\ [][NextActivity]_vars

\* C37: the activity log is append-only: every step leaves the entries that
\* were in the log where they were, also the steps that delete users, bans
\* and videos.
C37_ActivityLogAppendOnly ==
  [][ /\ Len(user_activity') >= Len(user_activity)
      /\ SubSeq(user_activity', 1, Len(user_activity)) = user_activity ]_vars

C37_Witness ==
  /\ \E p \in DOMAIN user_activity : user_activity[p] = [user_id |-> 3, action |-> "banned"]
  /\ \E q \in DOMAIN user_activity : user_activity[q] = [user_id |-> 3, action |-> "ping"]
  /\ 3 \notin users
  /\ lastEvent.handler \in {"db.remove_user", "db.clear_all_users"}
  /\ lastEvent.fault = <<"none">>

\* str.startswith(prefix)
has_prefix(text, prefix) ==
  Len(text) >= Len(prefix) /\ SubSeq(text, 1, Len(prefix)) = prefix

\* str.split(sep): the pieces between the separators, empty pieces kept
RECURSIVE split_sep(_, _)
split_sep(text, sep) ==
  IF \E k \in DOMAIN text : text[k] = sep
    THEN LET k == CHOOSE k \in DOMAIN text :
                    text[k] = sep /\ \A j \in 1..(k - 1) : text[j] # sep
         IN <<SubSeq(text, 1, k - 1)>> \o split_sep(SubSeq(text, k + 1, Len(text)), sep)
    ELSE <<text>>

\* str.split(sep, 1): what is before the first separator and what is after it
split_once(text, sep) ==
  LET parts == split_sep(text, sep)
  IN IF Len(parts) = 1 THEN parts
     ELSE <<parts[1], SubSeq(text, Len(parts[1]) + 2, Len(text))>>

\* Database.get_random_video: random.choice over the rows, None without rows
get_random_video(table) ==
  IF \E i \in DOMAIN table : table[i] # NoRow
    THEN {table[i] : i \in {j \in DOMAIN table : table[j] # NoRow}}
    ELSE {NoRow}

\* a variant of random_command without the join gate of lines 383-385
RandomCommandUngated(user_id, fault, member) ==
  LET acc == check_user_access(user_id, "random", fault)
  IN /\ CountedLookup
     /\ users' = acc.users
     /\ user_activity' = acc.log
     /\ \E video \in get_random_video(videos) :
          LET outcome ==
                CASE acc.result = "raise" -> "raise"
                  [] acc.result = "false" -> "denied"
                  [] video # NoRow -> "video"
                  [] OTHER -> "empty"
          IN lastEvent' = Event("random", user_id, acc.result, outcome,
                                [text |-> <<"/", "r", "a", "n", "d", "o", "m">>,
                                 video |-> IF outcome = "video" THEN video ELSE NoRow,
                                 member |-> member,
                                 viewed |-> outcome = "video"])
     /\ UNCHANGED <<banned_users, videos, ban_ops, user_states, channel_sends, fgRest>>

\* random_command, lines 371-404. member: the answer of check_channel_membership.
RandomCommand(user_id, fault, member) ==
  LET acc == check_user_access(user_id, "random", fault)
  IN /\ CountedLookup
     /\ users' = acc.users
     /\ user_activity' = acc.log
     /\ \E video \in get_random_video(videos) :
          LET outcome ==
                CASE acc.result = "raise" -> "raise"
                  [] acc.result = "false" -> "denied"
                  [] join_access_enabled /\ ~member -> "join_prompt"
                  [] video # NoRow -> "video"
                  [] OTHER -> "empty"
          IN lastEvent' = Event("random", user_id, acc.result, outcome,
                                [text |-> <<"/", "r", "a", "n", "d", "o", "m">>,
                                 video |-> IF outcome = "video" THEN video ELSE NoRow,
                                 member |-> member,
                                 viewed |-> outcome = "video"])
     /\ UNCHANGED <<banned_users, videos, ban_ops, user_states, channel_sends, fgRest>>

VideoPrefix == <<"v", "i", "d", "e", "o", "_">>
RetryPrefix == <<"r", "e", "t", "r", "y", "_">>
StartPrefix == <<"s", "t", "a", "r", "t", "_">>
RandomWord == <<"r", "a", "n", "d", "o", "m">>
BrowseWord == <<"b", "r", "o", "w", "s", "e">>

\* handle_callback for a video_ button, lines 2249-2291: the view is logged
\* and the video sent, after the join gate
HandleVideoButton(user_id, data, fault, member) ==
  LET acc == check_user_access(user_id, <<"callback:">> \o data, fault)
      video_id == split_sep(data, "_")[2]
      video == get_video_by_id(videos, video_id)
      outcome ==
        CASE acc.result = "raise" -> "raise"
          [] acc.result = "false" -> "denied"
          [] join_access_enabled /\ ~member -> "join_prompt"
          [] video # NoRow -> "video"
          [] OTHER -> "not_found"
  IN /\ has_prefix(data, VideoPrefix)
     /\ CountedLookup
     /\ users' = acc.users
     /\ user_activity' = acc.log
     /\ lastEvent' = Event("video_button", user_id, acc.result, outcome,
                           [text |-> data,
                            video |-> IF outcome = "video" THEN video ELSE NoRow,
                            member |-> member,
                            viewed |-> outcome = "video"])
     /\ UNCHANGED <<banned_users, videos, ban_ops, user_states, channel_sends, fgRest>>

\* handle_callback for a retry_ button, lines 2249-2266 and 2358-2440: the
\* gate does not read join_access_enabled, and no view is logged
HandleRetryButton(user_id, data, fault, member) ==
  LET acc == check_user_access(user_id, <<"callback:">> \o data, fault)
      original_command_data == split_once(data, "_")[2]
      by_id == get_video_by_id(videos, split_sep(original_command_data, "_")[2])
  IN /\ has_prefix(data, RetryPrefix)
     /\ CountedLookup
     /\ users' = acc.users
     /\ user_activity' = acc.log
     /\ \E random \in get_random_video(videos) :
          LET video ==
                CASE has_prefix(original_command_data, StartPrefix) -> by_id
                  [] original_command_data = RandomWord -> random
                  [] OTHER -> NoRow
              outcome ==
                CASE acc.result = "raise" -> "raise"
                  [] acc.result = "false" -> "denied"
                  [] ~member -> "join_prompt"
                  [] video # NoRow -> "video"
                  [] has_prefix(original_command_data, StartPrefix) -> "not_found"
                  [] original_command_data = RandomWord -> "empty"
                  [] OTHER -> "list"
          IN lastEvent' = Event("retry_button", user_id, acc.result, outcome,
                                [text |-> data,
                                 video |-> IF outcome = "video" THEN video ELSE NoRow,
                                 member |-> member,
                                 viewed |-> FALSE])
     /\ UNCHANGED <<banned_users, videos, ban_ops, user_states, channel_sends, fgRest>>

VideoButtons == {VideoPrefix \o uuid4(n) : n \in 1..MaxRows}

RetryButtons ==
  {RetryPrefix \o StartPrefix \o uuid4(n) : n \in 1..MaxRows}
    \cup {RetryPrefix \o RandomWord, RetryPrefix \o BrowseWord}

GateUsers == {3}

GateJoinAccess == JoinAccessCommand(OWNER, "none")

\* the requests for a video come once the events before them are over
GateOpen == nEvents >= MaxEvents

GateStart ==
  /\ GateOpen
  /\ \E u \in GateUsers, text \in StartTexts, status1, status2 \in ChatMemberStatuses :
       StartCommand(u, text, "none", check_channel_membership(status1, status2))

GateRandom ==
  /\ GateOpen
  /\ \E u \in GateUsers, status1, status2 \in ChatMemberStatuses :
       RandomCommand(u, "none", check_channel_membership(status1, status2))

GateVideoButton ==
  /\ GateOpen
  /\ \E u \in GateUsers, data \in VideoButtons, status1, status2 \in ChatMemberStatuses :
       HandleVideoButton(u, data, "none", check_channel_membership(status1, status2))

GateRetryButton ==
  /\ GateOpen
  /\ \E u \in GateUsers, data \in RetryButtons, status1, status2 \in ChatMemberStatuses :
       HandleRetryButton(u, data, "none", check_channel_membership(status1, status2))

NextJoinGate ==
  \/ UploadVideo \/ UploadText \/ GateJoinAccess
  \/ GateStart \/ GateRandom \/ GateVideoButton \/ GateRetryButton

\* an upload, the owner's /join_access, and the four ways to ask for a video
SpecJoinGate == Init /\ [][NextJoinGate]_vars

GatedVideoHandlers == {"start", "random", "video_button", "retry_button"}

\* C38: while join_access is enabled, a user for whom
\* check_channel_membership is false is sent no video by /start <id>, /random,
\* a video_ button or a retry_ button and no view is logged; a user the access
\* check lets through gets the join prompt instead.
C38_NonMemberGetsNoVideo ==
  [][ Handled /\ lastEvent'.handler \in GatedVideoHandlers
        /\ join_access_enabled /\ ~lastEvent'.content.member =>
          /\ lastEvent'.content.video = NoRow
          /\ ~lastEvent'.content.viewed
          /\ lastEvent'.outcome # "video"
          /\ (/\ lastEvent'.access = "true"
              /\ (lastEvent'.handler = "start" =>
                    Len(split(lastEvent'.content.text)) > 1))
               => lastEvent'.outcome = "join_prompt" ]_vars

C38_Witness ==
  /\ join_access_enabled
  /\ lastEvent.handler = "video_button"
  /\ lastEvent.outcome = "join_prompt"
  /\ ~lastEvent.content.member
  /\ get_video_by_id(videos, split_sep(lastEvent.content.text, "_")[2]) # NoRow

\* ------------------------------------------------- start_bot_with_retry
max_retries == 5

\* min(a, b)
min(a, b) == IF a <= b THEN a ELSE b

pollFrame == <<CHANNEL_1, CHANNEL_2, dbVars, fgVars, scheduled_broadcasts, now, schedVars>>

\* lines 2488-2503: bot.polling raises an ApiTelegramException whose text
\* holds one of the listed phrases; retry_count += 1
PollApiTimeout ==
  /\ poll_pc = "polling"
  /\ retry_count' = retry_count + 1
  /\ poll_pc' = "api_retry"
  /\ UNCHANGED <<wait_time, pollFrame>>

\* a variant that goes on counting after max_retries
ApiBackoffNoReset ==
  /\ poll_pc = "api_retry"
  /\ wait_time' = IF retry_count <= max_retries THEN min(30 * retry_count, 300) ELSE 60
  /\ poll_pc' = "sleeping"
  /\ UNCHANGED <<retry_count, pollFrame>>

\* lines 2504-2513: progressive backoff, or the counter starts again
ApiBackoff ==
  /\ poll_pc = "api_retry"
  /\ IF retry_count <= max_retries
       THEN wait_time' = min(30 * retry_count, 300) /\ retry_count' = retry_count
       ELSE retry_count' = 0 /\ wait_time' = 60
  /\ poll_pc' = "sleeping"
  /\ UNCHANGED pollFrame

\* lines 2514-2518: any other ApiTelegramException
PollApiOther ==
  /\ poll_pc = "polling"
  /\ wait_time' = 30
  /\ poll_pc' = "sleeping"
  /\ UNCHANGED <<retry_count, pollFrame>>

\* lines 2520-2522: requests.exceptions.RequestException; retry_count += 1
PollRequestError ==
  /\ poll_pc = "polling"
  /\ retry_count' = retry_count + 1
  /\ poll_pc' = "request_retry"
  /\ UNCHANGED <<wait_time, pollFrame>>

\* lines 2523-2532
RequestBackoff ==
  /\ poll_pc = "request_retry"
  /\ IF retry_count <= max_retries
       THEN wait_time' = min(15 * retry_count, 180) /\ retry_count' = retry_count
       ELSE retry_count' = 0 /\ wait_time' = 30
  /\ poll_pc' = "sleeping"
  /\ UNCHANGED pollFrame

\* lines 2534-2537: any other Exception; the counter is reset after the sleep
PollUnexpected ==
  /\ poll_pc = "polling"
  /\ wait_time' = 10
  /\ poll_pc' = "sleeping_reset"
  /\ UNCHANGED <<retry_count, pollFrame>>

\* lines 2541-2543: bot.polling returns
PollReturns ==
  /\ poll_pc = "polling"
  /\ wait_time' = 5
  /\ poll_pc' = "sleeping"
  /\ UNCHANGED <<retry_count, pollFrame>>

\* time.sleep returns and the while loop calls bot.polling again
PollRestart ==
  /\ poll_pc \in {"sleeping", "sleeping_reset"}
  /\ retry_count' = IF poll_pc = "sleeping_reset" THEN 0 ELSE retry_count
  /\ poll_pc' = "polling"
  /\ UNCHANGED <<wait_time, pollFrame>>

\* KeyboardInterrupt, which no except clause of the loop catches: lines 2551-2552
PollShutdown ==
  /\ poll_pc # "ended"
  /\ poll_pc' = "ended"
  /\ UNCHANGED <<retry_count, wait_time, pollFrame>>

\* the steps the loop takes by itself
RetryLoop == ApiBackoff \/ RequestBackoff \/ PollRestart

\* an inbound event, dispatched while bot.polling runs
PollingPing == poll_pc = "polling" /\ \E a \in AccessFaults : PingCommand(3, a)

NextRetry ==
  \/ PollApiTimeout \/ PollApiOther \/ PollRequestError \/ PollUnexpected
  \/ PollReturns \/ PollShutdown \/ RetryLoop \/ PollingPing

SpecRetry == InitSched /\ [][NextRetry]_vars

\* the main thread is not starved: a sleep ends, a handler goes on
FairRetry == SpecRetry /\ WF_vars(RetryLoop)

\* C39: polling is restarted after every exception other than a shutdown
\* request; retry_count never exceeds max_retries + 1 and goes back to 0 once
\* it has exceeded max_retries; no wait before a restart is longer than 300.
C39_PollingRestarts ==
  /\ [](retry_count <= max_retries + 1 /\ wait_time <= 300)
  /\ [][retry_count > max_retries => retry_count' = 0 \/ poll_pc' = "ended"]_pollVars
  /\ (retry_count > max_retries) ~> (retry_count = 0 \/ poll_pc = "ended")
  /\ (poll_pc \notin {"polling", "ended"}) ~> (poll_pc \in {"polling", "ended"})

C39_Witness ==
  /\ poll_pc = "polling"
  /\ retry_count = 0
  /\ wait_time = 60
  /\ lastEvent.handler = "ping"

\* ------------------------------------------------------ the whole program
Next ==
  \/ NextSched \/ Foreground \/ Start \/ Delete \/ NextBans \/ BanMessage \/ Ping
  \/ JoinAccess \/ GateRandom \/ GateVideoButton \/ GateRetryButton
  \/ ActivityRemove \/ ActivityClear \/ NextRetry

Spec == Init /\ [][Next]_vars

====
